---- MODULE Spec2Model ----
(***************************************************************************)
(* Model of the daily A-share screening tool: the Recommender's tiered     *)
(* ranking engine (normal -> relaxed -> force) with its pre-flight steps,  *)
(* and the BacktestRunner that replays it over a range of trade dates.     *)
(* Recommender.explain and the pure functions of scoring, of the cost      *)
(* model, of the market state, of the RSI and of the backtest summary are  *)
(* also run on their own, each under its own specification.                *)
(* So are the recommendation CSV report and the AkshareDataSource bar      *)
(* cache and retry loop.                                                   *)
(*                                                                         *)
(* Dates are day numbers.  Prices are in cents, momentum / slope /         *)
(* volatility in basis points (x 10000), ratios and z-scores x 100, and    *)
(* scores x 100 (0 .. 10000 stands for 0.00 .. 100.00).                    *)
(***************************************************************************)
EXTENDS Integers, Sequences, FiniteSets, TLC

VARIABLES
    cfg,            \* the configuration mapping given to the Recommender
    ds_calendar,    \* data source: the set of trade dates it knows
    ds_stocks,      \* data source: the stock list it returns
    ds_bars,        \* data source: symbol -> the daily bars it returns
    ds_closes,      \* data source: the recommended symbols' close by trade date
    ds_index,       \* data source: the index-close fetch gives "raise",
                    \*   "empty", or closes of this market label
    rpc,            \* position of the current recommend call
    target_date,    \* recommend's argument
    dates,          \* resolve_signal_date: the trade dates it got (a local)
    signal_date,    \* the resolved signal date
    probe_bars,     \* _check_signal_data_freshness: what the probe got (a local)
    fresh_ok,       \* result of the data-freshness check of this call
    market_state,   \* MarketState label of this call
    universe,       \* the filtered (and truncated) universe of this call
    enabled_modes,  \* _resolve_enabled_modes() of this call
    mode_idx,       \* position of the mode loop in enabled_modes
    sym_idx,        \* position of the symbol loop in universe
    out,            \* _rank_candidates: candidates appended so far
    stats,          \* _rank_candidates: the counters of the running pass
    stats_by_mode,  \* recommend: mode -> stats of every pass that ran
    candidates,     \* recommend: the sorted candidates of the last pass
    result,         \* the RecommendationResult returned, or None
    error,          \* the exception raised by the call, or None
    last_run_meta,  \* Recommender._last_run_meta
    calls,          \* data source instrumentation: the calls made, in order
    caller,         \* who called recommend: "cli" or "backtest"
    bpc,            \* position of BacktestRunner.run
    bt_range,       \* run's arguments <<start_date, end_date>>
    trade_dates,    \* run: the trade dates in range
    bt_idx,         \* run: position of the date loop
    attempted,      \* run: the dates handed to recommend, in order
    records,        \* run: the BacktestRecords
    error_counts,   \* run: exception type name -> count
    error_examples, \* run: the bounded list of examples
    mode_counts,    \* run: threshold_mode -> count
    summary,        \* run: the summary returned, or None
    bt_error,       \* run: the exception that left run, or None
    explain_args,   \* explain's arguments [symbol, mode], or None
    explained,      \* the CandidateScore explain returned, or None
    explain_calls,  \* explain calls made on this Recommender so far
    stock_name_map, \* Recommender._stock_name_map: None until it is built
    name_lookups,   \* get_stock_list calls made by _resolve_stock_name
    fn_args,        \* the arguments of a function called on its own, or None
    fn_ret,         \* what that call gave, or None before it
    bars_cache,     \* AkshareDataSource: the bar cache file of one symbol,
                    \*   its rows in file order, or None while there is no file
    fetch_seq       \* AkshareDataSource: remote bar fetches answered so far

vars == <<cfg, ds_calendar, ds_stocks, ds_bars, ds_closes, ds_index, rpc,
          target_date,
          dates, signal_date, probe_bars, fresh_ok, market_state, universe, enabled_modes, mode_idx, sym_idx,
          out, stats, stats_by_mode, candidates, result, error,
          last_run_meta, calls, caller, bpc, bt_range, trade_dates, bt_idx,
          attempted, records, error_counts, error_examples, mode_counts,
          summary, bt_error, explain_args, explained, explain_calls,
          stock_name_map, name_lookups, fn_args, fn_ret, bars_cache,
          fetch_seq>>

rec_vars == <<rpc, target_date, dates, signal_date, probe_bars, fresh_ok, market_state,
              universe, enabled_modes, mode_idx, sym_idx, out, stats,
              stats_by_mode, candidates, result, error, last_run_meta, calls>>

bt_vars == <<bpc, bt_range, trade_dates, bt_idx, attempted, records,
             error_counts, error_examples, mode_counts, summary, bt_error>>

env_vars == <<cfg, ds_calendar, ds_stocks, ds_bars, ds_closes, ds_index,
              bars_cache, fetch_seq>>

call_vars == <<explain_args, explained, explain_calls, stock_name_map,
               name_lookups, fn_args, fn_ret>>

----------------------------------------------------------------------------
(* Bounds of the model *)

MaxStocks == 2        \* longest stock list the data source returns
MaxBacktestDay == 8   \* last day number of the backtest calendar
MaxExplainCalls == 2  \* explain calls made on one Recommender
MaxSummaryRecords == 3 \* records given to _summary on its own
ResolveSpan == 3      \* days varied at each end of the signal-date window

(* Program constants *)

SignalLookbackDays == 30
DefaultLookbackDays == 120
RsiWindow == 14
MinBarsRanked == 70
MinBarsForce == 30
MinBacktestDates == 8
ForwardTail == 5
DefaultErrorExamples == 20

\* An optional value is <<>> (None) or <<v>>.
None == <<>>
Some(v) == <<v>>
\* The undefined float; every ordered comparison with it is false.
NaN == -999999

Modes == {"normal", "relaxed", "force"}
DefaultModes == <<"normal", "relaxed", "force">>

----------------------------------------------------------------------------
(* Sequences *)

Range(s) == {s[i] : i \in 1..Len(s)}

Last(s) == s[Len(s)]

Take(s, n) == SubSeq(s, 1, IF n < Len(s) THEN n ELSE Len(s))

\* The ascending list of a finite set of integers (list.sort of distinct dates).
SortedSeq(S) ==
    LET F[T \in SUBSET S] ==
            IF T = {} THEN <<>>
            ELSE LET m == CHOOSE x \in T : \A y \in T : x <= y
                 IN  <<m>> \o F[T \ {m}]
    IN  F[S]

Max(a, b) == IF a >= b THEN a ELSE b

Min(a, b) == IF a <= b THEN a ELSE b

----------------------------------------------------------------------------
(* Floats with NaN: np.isnan and the ordered comparisons *)

IsNaN(v) == v = NaN

FLe(a, b) == ~IsNaN(a) /\ ~IsNaN(b) /\ a <= b


----------------------------------------------------------------------------
(* universe/filtering.py *)

\* str.startswith on a symbol given as its tuple of digits
StartsWith(symbol, prefix) ==
    /\ Len(prefix) <= Len(symbol)
    /\ SubSeq(symbol, 1, Len(prefix)) = prefix

_excluded_board(symbol, exclude_star, exclude_bj, exclude_gem) ==
    \/ exclude_star /\ StartsWith(symbol, <<6, 8, 8>>)
    \/ exclude_gem /\ StartsWith(symbol, <<3, 0, 0>>)
    \/ exclude_bj /\ (StartsWith(symbol, <<4>>) \/ StartsWith(symbol, <<8>>))

FilterKeepsPaused(s, c) ==
    /\ ~(c.exclude_st /\ s.is_st)
    /\ ~_excluded_board(s.symbol, c.exclude_star, c.exclude_bj, c.exclude_gem)

\* the three `continue` tests of filter_universe's loop, negated
FilterKeeps(s, c) ==
    /\ ~(c.exclude_st /\ s.is_st)
    /\ ~s.is_paused
    /\ ~_excluded_board(s.symbol, c.exclude_star, c.exclude_bj, c.exclude_gem)

filter_universe(stocks, c) ==
    LET Keep(s) == FilterKeeps(s, c)
        kept == SelectSeq(stocks, Keep)
    IN  IF c.universe_limit <= 0 THEN kept ELSE Take(kept, c.universe_limit)

----------------------------------------------------------------------------
(* features/indicators.py: the latest feature row of a bar list.  A bar    *)
(* list is given by its length and by the values its last row takes where  *)
(* the trailing windows are full; add_indicators leaves a field undefined  *)
(* while its window is not.                                                *)

FeatureFields == {"close", "ma20", "ma60", "mom5", "mom20", "rsi14",
                  "vol20_std", "ma20_slope5", "vol_ratio_5_20",
                  "volume_zscore20", "turnover_rate"}

\* bars needed before the field's last value is defined
Window(f) ==
    CASE f = "close" -> 1
      [] f = "turnover_rate" -> 1
      [] f = "mom5" -> 6
      [] f = "rsi14" -> 14
      [] f = "ma20" -> 20
      [] f = "vol_ratio_5_20" -> 20
      [] f = "volume_zscore20" -> 20
      [] f = "mom20" -> 21
      [] f = "vol20_std" -> 21
      [] f = "ma20_slope5" -> 25
      [] f = "ma60" -> 60

\* rsi(series, window).iloc[-1]: the gains and losses of the last `window`
\* day-over-day moves (the first bar has none and counts as 0 in both), the
\* loss average replaced by NaN when it is 0, then 100 - 100 / (1 + rs),
\* which is 100 * gains / (gains + losses), in whole points
rsi(series, window) ==
    LET n == Len(series)
        diff(i) == IF i = 1 THEN 0 ELSE series[i] - series[i - 1]
        gain(i) == IF diff(i) > 0 THEN diff(i) ELSE 0
        loss(i) == IF diff(i) < 0 THEN 0 - diff(i) ELSE 0
        G[i \in (n - window)..n] ==
            IF i = n - window THEN 0 ELSE G[i - 1] + gain(i)
        L[i \in (n - window)..n] ==
            IF i = n - window THEN 0 ELSE L[i - 1] + loss(i)
    IN  IF n < window THEN NaN
        ELSE IF L[n] = 0 THEN NaN
        ELSE (100 * G[n]) \div (G[n] + L[n])

\* add_indicators(bars_to_df(bars)).iloc[-1] for n bars whose full-window
\* values are feat
LatestRow(n, feat) ==
    [f \in FeatureFields |-> IF n < Window(f) THEN NaN ELSE feat[f]]

----------------------------------------------------------------------------
(* strategy/scoring.py *)

threshold_from_mode_relaxed_hot(mode) ==
    CASE mode = "normal" ->
            [min_rsi |-> 35, max_rsi |-> 75, require_ma_alignment |-> TRUE,
             min_mom20 |-> 0]
      [] mode = "relaxed" ->
            [min_rsi |-> 65, max_rsi |-> 80, require_ma_alignment |-> FALSE,
             min_mom20 |-> -100]
      [] mode = "force" ->
            [min_rsi |-> 0, max_rsi |-> 100, require_ma_alignment |-> FALSE,
             min_mom20 |-> -10000]

threshold_from_mode(mode) ==
    CASE mode = "normal" ->
            [min_rsi |-> 35, max_rsi |-> 75, require_ma_alignment |-> TRUE,
             min_mom20 |-> 0]
      [] mode = "relaxed" ->
            [min_rsi |-> 30, max_rsi |-> 80, require_ma_alignment |-> FALSE,
             min_mom20 |-> -100]
      [] mode = "force" ->
            [min_rsi |-> 0, max_rsi |-> 100, require_ma_alignment |-> FALSE,
             min_mom20 |-> -10000]

passes_threshold_force_open(latest, mode) ==
    LET rule == threshold_from_mode(mode)
    IN  /\ ~(IsNaN(latest.ma20) \/ IsNaN(latest.ma60))
        /\ \/ mode = "force"
           \/ /\ ~FLe(latest.close, latest.ma20)
              /\ ~(rule.require_ma_alignment /\ FLe(latest.ma20, latest.ma60))
              /\ ~FLe(latest.mom20, rule.min_mom20)
              /\ FLe(rule.min_rsi, latest.rsi14) /\ FLe(latest.rsi14, rule.max_rsi)

passes_threshold(latest, mode) ==
    LET rule == threshold_from_mode(mode)
    IN  /\ ~(IsNaN(latest.ma20) \/ IsNaN(latest.ma60))
        /\ ~FLe(latest.close, latest.ma20)
        /\ ~(rule.require_ma_alignment /\ FLe(latest.ma20, latest.ma60))
        /\ ~FLe(latest.mom20, rule.min_mom20)
        /\ FLe(rule.min_rsi, latest.rsi14) /\ FLe(latest.rsi14, rule.max_rsi)

\* np.clip((v - lo) / (hi - lo), 0, 1), as a fraction of 10000
_clip01(v, lo, hi) ==
    IF hi <= lo THEN 0
    ELSE Max(0, Min(10000, ((v - lo) * 10000) \div (hi - lo)))

OrDefault(v, d) == IF IsNaN(v) THEN d ELSE v

\* float division: Python raises ZeroDivisionError on a zero divisor
ZeroDivides(latest) ==
    LET ma20 == OrDefault(latest.ma20, latest.close)
        ma60 == OrDefault(latest.ma60, ma20)
    IN  ma20 = 0 \/ ma60 = 0

\* the (total, breakdown) pair; defined where ~ZeroDivides(latest)
compute_score(latest, c) ==
    LET close == latest.close
        ma20  == OrDefault(latest.ma20, close)
        ma60  == OrDefault(latest.ma60, ma20)
        mom5  == OrDefault(latest.mom5, 0)
        mom20 == OrDefault(latest.mom20, 0)
        vol20_std == OrDefault(latest.vol20_std, 300)
        ma20_slope5 == OrDefault(latest.ma20_slope5, 0)
        vol_ratio_5_20 == OrDefault(latest.vol_ratio_5_20, 100)
        volume_zscore20 == OrDefault(latest.volume_zscore20, 0)
        trend == (_clip01((close * 10000) \div ma20 - 10000, -300, 800) * 4
                  + _clip01((ma20 * 10000) \div ma60 - 10000, -300, 800) * 4
                  + _clip01(ma20_slope5, -200, 400) * 2) \div 10
        momentum == (_clip01(mom5, -800, 1200) * 5
                     + _clip01(mom20, -1500, 2500) * 5) \div 10
        stability == 10000 - _clip01(vol20_std, 100, 800)
        volume == (_clip01(vol_ratio_5_20, 80, 200) * 6
                   + _clip01(volume_zscore20, -50, 250) * 4) \div 10
        w == c.weights
        pos(x) == Max(x, 0)
        wsum == pos(w.trend) + pos(w.momentum) + pos(w.stability) + pos(w.volume)
        weight_sum == IF wsum = 0 THEN 100 ELSE wsum
        total == (trend * pos(w.trend) + momentum * pos(w.momentum)
                  + stability * pos(w.stability) + volume * pos(w.volume))
                 \div weight_sum
    IN  [total |-> total,
         breakdown |-> [trend |-> trend, momentum |-> momentum,
                        stability |-> stability, volume |-> volume]]

----------------------------------------------------------------------------
(* strategy/regime_risk.py *)

\* MarketState(label, close, ma20, ma60, mom20): close, ma20 and ma60 in
\* sixtieths of an index point, so that both means are whole numbers, mom20
\* in 1/10000
MarketState(label, close, ma20, ma60, mom20) ==
    [label |-> label, close |-> close, ma20 |-> ma20, ma60 |-> ma60,
     mom20 |-> mom20]

\* the sum of the last k members of a series
SumLast(series, k) ==
    LET n == Len(series)
        F[i \in 0..k] == IF i = 0 THEN 0 ELSE F[i - 1] + series[n - i + 1]
    IN  F[k]

detect_market_state_undated(index_closes, sig, lookback) ==
    LET items == index_closes
        series == SubSeq(items, Max(1, Len(items) - lookback + 1), Len(items))
        n == Len(series)
        close == 60 * series[n]
        ma20 == IF n >= 20 THEN 3 * SumLast(series, 20) ELSE close
        ma60 == IF n >= 60 THEN SumLast(series, 60) ELSE ma20
        mom20 == IF n >= 21
                 THEN (series[n] * 10000) \div series[n - 20] - 10000
                 ELSE 0
        label == IF close > ma20 /\ ma20 > ma60 /\ mom20 > 0 THEN "bull"
                 ELSE IF close < ma20 /\ mom20 < 0 THEN "bear"
                 ELSE "neutral"
    IN  IF items = <<>> THEN MarketState("unknown", 0, 0, 0, 0)
        ELSE MarketState(label, close, ma20, ma60, mom20)

\* detect_market_state(index_closes, signal_date, cfg) for the signal date
\* sig and cfg's market_filter.lookback_days, a positive number.  index_closes maps the
\* dates 1..Len(index_closes) to closes of at most 10000 index points, for
\* which the scaled mom20 keeps the sign of the exact one.
detect_market_state(index_closes, sig, lookback) ==
    LET items == SubSeq(index_closes, 1, Min(sig, Len(index_closes)))
        series == SubSeq(items, Max(1, Len(items) - lookback + 1), Len(items))
        n == Len(series)
        close == 60 * series[n]
        ma20 == IF n >= 20 THEN 3 * SumLast(series, 20) ELSE close
        ma60 == IF n >= 60 THEN SumLast(series, 60) ELSE ma20
        mom20 == IF n >= 21
                 THEN (series[n] * 10000) \div series[n - 20] - 10000
                 ELSE 0
        label == IF close > ma20 /\ ma20 > ma60 /\ mom20 > 0 THEN "bull"
                 ELSE IF close < ma20 /\ mom20 < 0 THEN "bear"
                 ELSE "neutral"
    IN  IF items = <<>> THEN MarketState("unknown", 0, 0, 0, 0)
        ELSE MarketState(label, close, ma20, ma60, mom20)

passes_risk_filter_bear_open(latest, market, mode, c) ==
    IF ~c.risk_enabled THEN TRUE
    ELSE IF mode = "force" THEN TRUE
    ELSE LET close == latest.close
             rsi14 == latest.rsi14
             vol20_std == latest.vol20_std
             vol_ratio == latest.vol_ratio_5_20
             mom20 == latest.mom20
             turnover == latest.turnover_rate
         IN  /\ ~(IsNaN(close) \/ IsNaN(rsi14) \/ IsNaN(vol20_std)
                  \/ IsNaN(vol_ratio) \/ IsNaN(mom20))
             /\ ~(close < 200)
             /\ ~(close > 20000)
             /\ ~(rsi14 > 85)
             /\ ~(vol20_std > 700)
             /\ ~(vol_ratio < 60)
             /\ ~(c.require_turnover_data /\ FLe(turnover, 0))
             /\ ~(/\ market \in {"bear", "neutral"}
                  /\ c.weak_enabled
                  /\ \/ vol20_std > 500
                     \/ c.require_mom20_positive /\ mom20 <= 0)

passes_risk_filter(latest, market, mode, c) ==
    IF ~c.risk_enabled THEN TRUE
    ELSE IF mode = "force" THEN TRUE
    ELSE IF c.market_enabled /\ market = "bear" /\ c.block_on_bear THEN FALSE
    ELSE LET close == latest.close
             rsi14 == latest.rsi14
             vol20_std == latest.vol20_std
             vol_ratio == latest.vol_ratio_5_20
             mom20 == latest.mom20
             turnover == latest.turnover_rate
         IN  /\ ~(IsNaN(close) \/ IsNaN(rsi14) \/ IsNaN(vol20_std)
                  \/ IsNaN(vol_ratio) \/ IsNaN(mom20))
             /\ ~(close < 200)
             /\ ~(close > 20000)
             /\ ~(rsi14 > 85)
             /\ ~(vol20_std > 700)
             /\ ~(vol_ratio < 60)
             /\ ~(c.require_turnover_data /\ FLe(turnover, 0))
             /\ ~(/\ market \in {"bear", "neutral"}
                  /\ c.weak_enabled
                  /\ \/ vol20_std > 500
                     \/ c.require_mom20_positive /\ mom20 <= 0)

----------------------------------------------------------------------------
(* The configuration: every option with its default *)

DefaultCfg ==
    [modes |-> [is_list |-> TRUE, items |-> DefaultModes],
     exclude_st |-> TRUE, exclude_star |-> TRUE, exclude_bj |-> TRUE,
     exclude_gem |-> TRUE, universe_limit |-> 0, max_symbols |-> 0,
     fresh_enabled |-> TRUE, stop_on_stale |-> TRUE,
     market_enabled |-> TRUE, block_on_bear |-> TRUE,
     risk_enabled |-> TRUE, weak_enabled |-> TRUE,
     require_mom20_positive |-> FALSE, require_turnover_data |-> FALSE,
     weights |-> [trend |-> 35, momentum |-> 35, stability |-> 15,
                  volume |-> 15],
     failed_symbol_examples |-> DefaultErrorExamples,
     max_error_examples |-> DefaultErrorExamples,
     cost_enabled |-> TRUE, commission_rate |-> 2, stamp_duty_sell_rate |-> 5,
     slippage_bps |-> 5, min_commission_per_side |-> 0]

----------------------------------------------------------------------------
(* Exceptions *)

Exc(type, msg) == [type |-> type, msg |-> msg]

NoTradeDatesError == Exc("RuntimeError", "No enough trade dates to resolve T-1 signal date")
StaleDataError == Exc("RuntimeError", "data not updated, stopped")
NoCandidateError == Exc("RuntimeError", "No candidate found in enabled modes")
BacktestDatesError == Exc("RuntimeError", "Not enough trade dates for backtest")
DataSourceError == Exc("ConnectionError", "data source call failed")
ZeroDivisionError == Exc("ZeroDivisionError", "float division by zero")

----------------------------------------------------------------------------
(* data_source: the MarketDataSource the core consumes *)

\* get_trade_dates(start, end): the ordered trade dates in [start, end]
get_trade_dates(start, end) ==
    SortedSeq({d \in ds_calendar : start <= d /\ d <= end})

\* The bars of one symbol: the call raises, or returns n_upto bars dated at
\* or before the requested end and n_after bars dated later, whose last row
\* at the end date has the full-window values feat.
Bars(raises, n_upto, n_after, feat) ==
    [raises |-> raises, n_upto |-> n_upto, n_after |-> n_after, feat |-> feat]

----------------------------------------------------------------------------
(* engine/recommender.py *)

resolve_signal_date_last(ds, target) ==
    IF Len(ds) < 2 THEN None ELSE Some(Last(ds))

\* None stands for the RuntimeError raised on fewer than 2 dates
resolve_signal_date(ds, target) ==
    IF Len(ds) < 2 THEN None
    ELSE IF Last(ds) = target THEN Some(ds[Len(ds) - 1])
    ELSE Some(Last(ds))

\* str(m).strip().lower() on the mode names a configuration may hold
NormaliseMode(raw) ==
    CASE raw = " Normal " -> "normal"
      [] raw = "FORCE" -> "force"
      [] OTHER -> raw

_resolve_enabled_modes_repeating(cfg_modes) ==
    LET F[i \in 0..Len(cfg_modes.items)] ==
            IF i = 0 THEN <<>>
            ELSE LET mode == NormaliseMode(cfg_modes.items[i])
                 IN  IF mode \in Modes
                     THEN Append(F[i - 1], mode)
                     ELSE F[i - 1]
        res == F[Len(cfg_modes.items)]
    IN  IF ~cfg_modes.is_list THEN DefaultModes
        ELSE IF res = <<>> THEN DefaultModes ELSE res

_resolve_enabled_modes(cfg_modes) ==
    LET F[i \in 0..Len(cfg_modes.items)] ==
            IF i = 0 THEN <<>>
            ELSE LET mode == NormaliseMode(cfg_modes.items[i])
                 IN  IF mode \in Modes /\ mode \notin Range(F[i - 1])
                     THEN Append(F[i - 1], mode)
                     ELSE F[i - 1]
        res == F[Len(cfg_modes.items)]
    IN  IF ~cfg_modes.is_list THEN DefaultModes
        ELSE IF res = <<>> THEN DefaultModes ELSE res

\* The probe's answer: the call raises, or returns bars (possibly none) whose
\* latest trade date is last_date.
Probe(raises, has_bars, last_date) ==
    [raises |-> raises, has_bars |-> has_bars, last_date |-> last_date]

_check_signal_data_freshness_strict(c, sig, probe) ==
    IF ~c.fresh_enabled THEN TRUE
    ELSE IF probe.raises THEN FALSE
    ELSE IF ~probe.has_bars THEN FALSE
    ELSE IF probe.last_date <= sig THEN FALSE
    ELSE TRUE

_check_signal_data_freshness(c, sig, probe) ==
    IF ~c.fresh_enabled THEN TRUE
    ELSE IF probe.raises THEN FALSE
    ELSE IF ~probe.has_bars THEN FALSE
    ELSE IF probe.last_date < sig THEN FALSE
    ELSE TRUE

_resolve_market_state_neutral(c, index_answer) ==
    IF ~c.market_enabled THEN "unknown"
    ELSE IF index_answer \in {"raise", "empty"} THEN "neutral"
    ELSE index_answer

\* _resolve_market_state: the label, given what the index fetch gave
\* ("raise", "empty", or the label detect_market_state derives from it)
_resolve_market_state(c, index_answer) ==
    IF ~c.market_enabled THEN "unknown"
    ELSE IF index_answer \in {"raise", "empty"} THEN "unknown"
    ELSE index_answer

_fetch_recent_bars_unfiltered(bars) == bars.n_upto + bars.n_after

\* _fetch_recent_bars: the number of bars kept, those dated <= signal_date
_fetch_recent_bars(bars) == bars.n_upto

ZeroStatsUnscanned(n) ==
    [scanned |-> 0, kline_success |-> 0, kline_failed |-> 0,
     kline_failed_examples |-> <<>>, no_bars |-> 0, no_bars_symbols |-> <<>>,
     insufficient_bars |-> 0, df_empty |-> 0, threshold_reject |-> 0,
     risk_reject |-> 0, market_reject |-> 0, scored |-> 0]

ZeroStats(n) ==
    [scanned |-> n, kline_success |-> 0, kline_failed |-> 0,
     kline_failed_examples |-> <<>>, no_bars |-> 0, no_bars_symbols |-> <<>>,
     insufficient_bars |-> 0, df_empty |-> 0, threshold_reject |-> 0,
     risk_reject |-> 0, market_reject |-> 0, scored |-> 0]

min_bars_force_only(mode) == MinBarsForce

min_bars(mode) == IF mode # "force" THEN MinBarsRanked ELSE MinBarsForce

\* build_reason: the fallback note appended to the four sub-score lines
build_reason(mode) ==
    CASE mode = "relaxed" -> "relaxed thresholds enabled"
      [] mode = "force" -> "forced fallback enabled"
      [] OTHER -> ""

CandidateScore(stock, sc, latest, mode) ==
    [symbol |-> stock.symbol, score_total |-> sc.total,
     score_breakdown |-> sc.breakdown, key_metrics |-> latest,
     reason |-> build_reason(mode)]

SortByScoreDescUnstable(s) ==
    LET Insert(sorted, x) ==
            LET k == Cardinality({i \in 1..Len(sorted) :
                                    sorted[i].score_total > x.score_total})
            IN  SubSeq(sorted, 1, k) \o <<x>> \o SubSeq(sorted, k + 1, Len(sorted))
        F[i \in 0..Len(s)] == IF i = 0 THEN <<>> ELSE Insert(F[i - 1], s[i])
    IN  F[Len(s)]

\* list.sort(key=score_total, reverse=True): stable, descending
SortByScoreDesc(s) ==
    LET Insert(sorted, x) ==
            LET k == Cardinality({i \in 1..Len(sorted) :
                                    sorted[i].score_total >= x.score_total})
            IN  SubSeq(sorted, 1, k) \o <<x>> \o SubSeq(sorted, k + 1, Len(sorted))
        F[i \in 0..Len(s)] == IF i = 0 THEN <<>> ELSE Insert(F[i - 1], s[i])
    IN  F[Len(s)]

\* The outcome of one iteration of _rank_candidates' loop for one stock:
\* the updated stats, the candidate appended, if any, and the exception
\* that leaves the loop, if any.
RankOne(stock, bars, mode, market, c, st) ==
    LET n == _fetch_recent_bars(bars)
        latest == LatestRow(n, bars.feat)
        cap == c.failed_symbol_examples
    IN  IF bars.raises THEN
            [stats |-> [st EXCEPT
                 !.kline_failed = @ + 1,
                 !.kline_failed_examples =
                     IF Len(@) < cap THEN Append(@, stock.symbol) ELSE @],
             cand |-> None, gates |-> 0, raised |-> None]
        ELSE IF n = 0 THEN
            [stats |-> [st EXCEPT
                 !.no_bars = @ + 1,
                 !.no_bars_symbols =
                     IF Len(@) < cap THEN Append(@, stock.symbol) ELSE @],
             cand |-> None, gates |-> 0, raised |-> None]
        ELSE IF n < min_bars(mode) THEN
            [stats |-> [st EXCEPT !.kline_success = @ + 1,
                                  !.insufficient_bars = @ + 1],
             cand |-> None, gates |-> 0, raised |-> None]
        ELSE IF mode # "force" /\ ~passes_threshold(latest, mode) THEN
            [stats |-> [st EXCEPT !.kline_success = @ + 1,
                                  !.threshold_reject = @ + 1],
             cand |-> None, gates |-> 1, raised |-> None]
        ELSE IF ~passes_risk_filter(latest, market, mode, c) THEN
            [stats |-> IF mode # "force" /\ c.market_enabled /\ market = "bear"
                       THEN [st EXCEPT !.kline_success = @ + 1,
                                       !.market_reject = @ + 1]
                       ELSE [st EXCEPT !.kline_success = @ + 1,
                                       !.risk_reject = @ + 1],
             cand |-> None, gates |-> 1, raised |-> None]
        ELSE IF ZeroDivides(latest) THEN
            \* compute_score is called outside the try block
            [stats |-> [st EXCEPT !.kline_success = @ + 1],
             cand |-> None, gates |-> 1, raised |-> Some(ZeroDivisionError)]
        ELSE
            [stats |-> [st EXCEPT !.kline_success = @ + 1, !.scored = @ + 1],
             cand |-> Some(CandidateScore(stock, compute_score(latest, c),
                                          latest, mode)),
             gates |-> 1, raised |-> None]

MetaCountOfEveryMode(modes, sbm, m) ==
    Some(IF m \in DOMAIN sbm THEN sbm[m].scored ELSE 0)

MetaCount(modes, sbm, m) ==
    IF m \in Range(modes)
    THEN Some(IF m \in DOMAIN sbm THEN sbm[m].scored ELSE 0)
    ELSE None

RunMeta(target, sig, mode, modes, sbm) ==
    [target_date |-> target, signal_date |-> sig, final_mode |-> mode,
     enabled_modes |-> modes,
     normal_scored |-> MetaCount(modes, sbm, "normal"),
     relaxed_scored |-> MetaCount(modes, sbm, "relaxed"),
     force_scored |-> MetaCount(modes, sbm, "force")]

RecommendationResult(target, top, mode) ==
    [trade_date |-> target, symbol |-> top.symbol,
     score_total |-> top.score_total, score_breakdown |-> top.score_breakdown,
     key_metrics |-> top.key_metrics, reason |-> top.reason,
     threshold_mode |-> mode]

ZeroCalls ==
    [trade_dates |-> 0, probe |-> 0, index |-> 0, stock_list |-> 0,
     bars |-> [m \in Modes |-> 0], gates |-> [m \in Modes |-> 0],
     scores |-> [m \in Modes |-> 0]]

----------------------------------------------------------------------------
(* Recommender.recommend, one action per step of the call *)

\* entry of recommend(target): the locals of a fresh call
BeginRecommend(t) ==
    /\ rpc' = "resolve"
    /\ target_date' = t
    /\ dates' = <<>>
    /\ signal_date' = None
    /\ probe_bars' = None
    /\ fresh_ok' = TRUE
    /\ market_state' = "unset"
    /\ universe' = <<>>
    /\ enabled_modes' = <<>>
    /\ mode_idx' = 0
    /\ sym_idx' = 0
    /\ out' = <<>>
    /\ stats' = ZeroStats(0)
    /\ stats_by_mode' = <<>>
    /\ candidates' = <<>>
    /\ result' = None
    /\ error' = None
    /\ calls' = ZeroCalls
    /\ UNCHANGED last_run_meta

\* the call leaves recommend with an exception
RecRaise(exc) ==
    /\ rpc' = "raised"
    /\ error' = Some(exc)

\* signal_date = self.resolve_signal_date(target_date)
ResolveSignalDate ==
    /\ rpc = "resolve"
    /\ calls' = [calls EXCEPT !.trade_dates = @ + 1]
    /\ \E ds_raises \in BOOLEAN :
        IF ds_raises THEN
            /\ RecRaise(DataSourceError)
            /\ UNCHANGED <<dates, signal_date>>
        ELSE
            LET got == get_trade_dates(target_date - SignalLookbackDays, target_date)
                sig == resolve_signal_date(got, target_date)
            IN  /\ dates' = got
                /\ IF sig = None
                   THEN RecRaise(NoTradeDatesError) /\ UNCHANGED signal_date
                   ELSE /\ signal_date' = sig
                        /\ rpc' = "fresh"
                        /\ UNCHANGED error
    /\ UNCHANGED <<target_date, probe_bars, fresh_ok, market_state, universe,
                   enabled_modes, mode_idx, sym_idx, out, stats, stats_by_mode,
                   candidates, result, last_run_meta>>
    /\ UNCHANGED <<env_vars, call_vars, caller, bt_vars>>

\* what the probe symbol's bar fetch may give around the signal date
ProbeAnswers(sig) ==
    {Probe(TRUE, FALSE, sig), Probe(FALSE, FALSE, sig)}
    \cup {Probe(FALSE, TRUE, d) : d \in {sig - 1, sig, sig + 1}}

\* fresh_ok, msg = self._check_signal_data_freshness(signal_date), and the
\* stop_on_stale test that follows
CheckFreshness ==
    /\ rpc = "fresh"
    /\ \E probe \in ProbeAnswers(signal_date[1]) :
        LET ok == _check_signal_data_freshness(cfg, signal_date[1], probe)
        IN  /\ fresh_ok' = ok
            /\ probe_bars' = IF cfg.fresh_enabled THEN Some(probe) ELSE None
            /\ calls' = [calls EXCEPT
                   !.probe = IF cfg.fresh_enabled THEN @ + 1 ELSE @]
            /\ IF ~ok /\ cfg.stop_on_stale
               THEN RecRaise(StaleDataError)
               ELSE rpc' = "market" /\ UNCHANGED error
    /\ UNCHANGED <<target_date, dates, signal_date, market_state, universe,
                   enabled_modes, mode_idx, sym_idx, out, stats, stats_by_mode,
                   candidates, result, last_run_meta>>
    /\ UNCHANGED <<env_vars, call_vars, caller, bt_vars>>

\* market_state, market_reason = self._resolve_market_state(signal_date)
ResolveMarketState ==
    /\ rpc = "market"
    /\ market_state' = _resolve_market_state(cfg, ds_index)
    /\ probe_bars' = None
    /\ calls' = [calls EXCEPT !.index = IF cfg.market_enabled THEN @ + 1 ELSE @]
    /\ rpc' = "universe"
    /\ UNCHANGED <<target_date, dates, signal_date, fresh_ok, universe,
                   enabled_modes, mode_idx, sym_idx, out, stats, stats_by_mode,
                   candidates, result, error, last_run_meta>>
    /\ UNCHANGED <<env_vars, call_vars, caller, bt_vars>>

LoadUniverseForceAfterSuccess ==
    /\ rpc = "universe"
    /\ calls' = [calls EXCEPT !.stock_list = @ + 1]
    /\ \E ds_raises \in BOOLEAN :
        IF ds_raises THEN
            /\ RecRaise(DataSourceError)
            /\ UNCHANGED <<universe, enabled_modes, mode_idx, sym_idx, stats>>
        ELSE
            LET filtered == filter_universe(ds_stocks, cfg)
                uni == IF cfg.max_symbols > 0
                       THEN Take(filtered, cfg.max_symbols) ELSE filtered
            IN  /\ universe' = uni
                /\ enabled_modes' = IF last_run_meta # None THEN <<"force">>
                                   ELSE _resolve_enabled_modes(cfg.modes)
                /\ mode_idx' = 1
                /\ sym_idx' = 1
                /\ stats' = ZeroStats(Len(uni))
                /\ rpc' = "rank"
                /\ UNCHANGED error
    /\ UNCHANGED <<target_date, dates, signal_date, probe_bars, fresh_ok,
                   market_state, out, stats_by_mode, candidates, result,
                   last_run_meta>>
    /\ UNCHANGED <<env_vars, call_vars, caller, bt_vars>>

\* stocks = get_stock_list(); universe = filter_universe(...)[:max_symbols];
\* enabled_modes = self._resolve_enabled_modes(); entry of the first pass
LoadUniverse ==
    /\ rpc = "universe"
    /\ calls' = [calls EXCEPT !.stock_list = @ + 1]
    /\ \E ds_raises \in BOOLEAN :
        IF ds_raises THEN
            /\ RecRaise(DataSourceError)
            /\ UNCHANGED <<universe, enabled_modes, mode_idx, sym_idx, stats>>
        ELSE
            LET filtered == filter_universe(ds_stocks, cfg)
                uni == IF cfg.max_symbols > 0
                       THEN Take(filtered, cfg.max_symbols) ELSE filtered
            IN  /\ universe' = uni
                /\ enabled_modes' = _resolve_enabled_modes(cfg.modes)
                /\ mode_idx' = 1
                /\ sym_idx' = 1
                /\ stats' = ZeroStats(Len(uni))
                /\ rpc' = "rank"
                /\ UNCHANGED error
    /\ UNCHANGED <<target_date, dates, signal_date, probe_bars, fresh_ok,
                   market_state, out, stats_by_mode, candidates, result,
                   last_run_meta>>
    /\ UNCHANGED <<env_vars, call_vars, caller, bt_vars>>

\* one iteration of the symbol loop of _rank_candidates
RankSymbol ==
    /\ rpc = "rank"
    /\ sym_idx <= Len(universe)
    /\ LET mode == enabled_modes[mode_idx]
           stock == universe[sym_idx]
           bars == ds_bars[stock.symbol]
           r == RankOne(stock, bars, mode, market_state, cfg, stats)
       IN  /\ stats' = r.stats
           /\ out' = out \o r.cand
           /\ calls' = [calls EXCEPT
                  !.bars[mode] = @ + 1,
                  !.gates[mode] = @ + r.gates,
                  !.scores[mode] = @ + Len(r.cand)]
           /\ IF r.raised # None
              THEN RecRaise(r.raised[1]) /\ UNCHANGED sym_idx
              ELSE sym_idx' = sym_idx + 1 /\ UNCHANGED <<rpc, error>>
    /\ UNCHANGED <<target_date, dates, signal_date, probe_bars, fresh_ok,
                   market_state, universe, enabled_modes, mode_idx,
                   stats_by_mode, candidates, result, last_run_meta>>
    /\ UNCHANGED <<env_vars, call_vars, caller, bt_vars>>

BreakLoopNever(cands) == FALSE

\* `if candidates: break` in recommend's mode loop
BreakLoop(cands) == cands # <<>>

NoCandidateBelowTwo(cands) == Len(cands) < 2

\* `if not candidates: raise RuntimeError(...)` after the loop
NoCandidate(cands) == cands = <<>>

\* the end of a pass: out.sort(...), return to recommend's mode loop, then
\* the next pass, or past the loop the no-candidate error or the result
EndPass ==
    /\ rpc = "rank"
    /\ sym_idx > Len(universe)
    /\ LET mode == enabled_modes[mode_idx]
           sorted == SortByScoreDesc(out)
           sbm == (mode :> stats) @@ stats_by_mode
       IN  /\ candidates' = sorted
           /\ stats_by_mode' = sbm
           /\ IF ~BreakLoop(sorted) /\ mode_idx < Len(enabled_modes) THEN
                  /\ mode_idx' = mode_idx + 1
                  /\ sym_idx' = 1
                  /\ out' = <<>>
                  /\ stats' = ZeroStats(Len(universe))
                  /\ UNCHANGED <<rpc, result, error, last_run_meta>>
              ELSE IF NoCandidate(sorted) THEN
                  /\ RecRaise(NoCandidateError)
                  /\ out' = sorted
                  /\ UNCHANGED <<result, last_run_meta, mode_idx, sym_idx, stats>>
              ELSE
                  /\ rpc' = "returned"
                  /\ result' = Some(RecommendationResult(target_date, sorted[1], mode))
                  /\ last_run_meta' = Some(RunMeta(target_date, signal_date[1],
                                                   mode, enabled_modes, sbm))
                  /\ out' = sorted
                  /\ UNCHANGED <<error, mode_idx, sym_idx, stats>>
    /\ UNCHANGED <<target_date, dates, signal_date, probe_bars, fresh_ok,
                   market_state, universe, enabled_modes, calls>>
    /\ UNCHANGED <<env_vars, call_vars, caller, bt_vars>>

RecommendStep ==
    \/ ResolveSignalDate
    \/ CheckFreshness
    \/ ResolveMarketState
    \/ LoadUniverse
    \/ RankSymbol
    \/ EndPass

----------------------------------------------------------------------------
(* backtest/runner.py: BacktestRunner.run, one action per step *)

\* Counter[key] += 1
Inc(counter, key) ==
    IF key \in DOMAIN counter
    THEN [counter EXCEPT ![key] = @ + 1]
    ELSE (key :> 1) @@ counter

\* the dates the loop iterates: trade_dates[:-5]
LoopDates(tds) ==
    IF Len(tds) > ForwardTail THEN SubSeq(tds, 1, Len(tds) - ForwardTail) ELSE <<>>

\* one_net and the first loop of _summary: the equity after each defined
\* 1-day net return, in 1/10000 of the starting equity 1.0
EquityCurve(recs) ==
    LET one_net == SelectSeq([i \in 1..Len(recs) |-> recs[i].ret_1d_net],
                             LAMBDA r : r # None)
        equity[i \in 0..Len(one_net)] ==
            IF i = 0 THEN 10000
            ELSE (equity[i - 1] * (10000 + one_net[i][1])) \div 10000
    IN  [i \in 1..Len(one_net) |-> equity[i]]

\* the second loop of _summary: peak starts at 1.0, max_dd in 1/10000
MaxDrawdown(curve) ==
    LET peak[i \in 0..Len(curve)] ==
            IF i = 0 THEN 10000 ELSE Max(peak[i - 1], curve[i])
        max_dd[i \in 0..Len(curve)] ==
            IF i = 0 THEN 0
            ELSE Max(max_dd[i - 1],
                     IF peak[i] > 0
                     THEN ((peak[i] - curve[i]) * 10000) \div peak[i]
                     ELSE 0)
    IN  max_dd[Len(curve)]

_summary_peak_from_curve(recs, attempted_days, counts, examples, modes) ==
    LET curve == EquityCurve(recs)
        peak[i \in 1..Len(curve)] ==
            IF i = 1 THEN curve[1] ELSE Max(peak[i - 1], curve[i])
        max_dd[i \in 0..Len(curve)] ==
            IF i = 0 THEN 0
            ELSE Max(max_dd[i - 1],
                     IF peak[i] > 0
                     THEN ((peak[i] - curve[i]) * 10000) \div peak[i]
                     ELSE 0)
    IN  [attempted_days |-> attempted_days,
         total_trades |-> Len(recs),
         skipped_days |-> Max(attempted_days - Len(recs), 0),
         max_drawdown_proxy |-> max_dd[Len(curve)],
         threshold_mode_counts |-> modes,
         error_counts |-> counts,
         error_examples |-> examples,
         records |-> recs]

_summary(recs, attempted_days, counts, examples, modes) ==
    [attempted_days |-> attempted_days,
     total_trades |-> Len(recs),
     skipped_days |-> Max(attempted_days - Len(recs), 0),
     max_drawdown_proxy |-> MaxDrawdown(EquityCurve(recs)),
     threshold_mode_counts |-> modes,
     error_counts |-> counts,
     error_examples |-> examples,
     records |-> recs]

_apply_round_trip_cost_unclamped(gross_ret, c) ==
    IF gross_ret = None THEN None
    ELSE IF ~c.cost_enabled THEN gross_ret
    ELSE LET slip == c.slippage_bps
             buy_fee == Max(c.commission_rate, c.min_commission_per_side)
             sell_fee == Max(c.commission_rate + c.stamp_duty_sell_rate,
                             c.min_commission_per_side)
             gross_factor == 10000 + gross_ret[1]
         IN  Some((((gross_factor * (10000 - slip)) \div (10000 + slip))
                       * (10000 - sell_fee)) \div (10000 + buy_fee)
                  - 10000)

_apply_round_trip_cost_no_minimum(gross_ret, c) ==
    IF gross_ret = None THEN None
    ELSE IF ~c.cost_enabled THEN gross_ret
    ELSE LET slip == c.slippage_bps
             buy_fee == c.commission_rate
             sell_fee == c.commission_rate + c.stamp_duty_sell_rate
             gross_factor == 10000 + gross_ret[1]
         IN  IF gross_factor <= 0 THEN Some(-10000)
             ELSE Some((((gross_factor * (10000 - slip)) \div (10000 + slip))
                            * (10000 - sell_fee)) \div (10000 + buy_fee)
                       - 10000)

\* _apply_round_trip_cost, returns and rates in units of 1/10000, the
\* slippage quotient taken before the fee quotient
_apply_round_trip_cost(gross_ret, c) ==
    IF gross_ret = None THEN None
    ELSE IF ~c.cost_enabled THEN gross_ret
    ELSE LET slip == c.slippage_bps
             buy_fee == Max(c.commission_rate, c.min_commission_per_side)
             sell_fee == Max(c.commission_rate + c.stamp_duty_sell_rate,
                             c.min_commission_per_side)
             gross_factor == 10000 + gross_ret[1]
         IN  IF gross_factor <= 0 THEN Some(-10000)
             ELSE Some((((gross_factor * (10000 - slip)) \div (10000 + slip))
                            * (10000 - sell_fee)) \div (10000 + buy_fee)
                       - 10000)

\* _calc_forward_return: tds is trade_dates, idx the position of dt in it,
\* close_map the closes of the fetched bars by trade date
_calc_forward_return(close_map, idx, tds, step) ==
    IF idx + step > Len(tds) THEN None
    ELSE LET d1 == tds[idx]
             d2 == tds[idx + step]
         IN  IF d1 \notin DOMAIN close_map \/ d2 \notin DOMAIN close_map
             THEN None
             ELSE IF close_map[d1] <= 0 THEN None
             ELSE Some((close_map[d2] * 10000) \div close_map[d1] - 10000)

BacktestRecord(dt, rec, close_map, idx, tds, c) ==
    LET ret_1d_gross == _calc_forward_return(close_map, idx, tds, 1)
        ret_5d_gross == _calc_forward_return(close_map, idx, tds, 5)
    IN  [trade_date |-> dt, symbol |-> rec.symbol,
         threshold_mode |-> rec.threshold_mode,
         ret_1d_gross |-> ret_1d_gross, ret_5d_gross |-> ret_5d_gross,
         ret_1d_net |-> _apply_round_trip_cost(ret_1d_gross, c),
         ret_5d_net |-> _apply_round_trip_cost(ret_5d_gross, c)]

\* trade_dates = self.ds.get_trade_dates(start_date, end_date) and the
\* length test
BtStart ==
    /\ caller = "backtest"
    /\ bpc = "idle"
    /\ \E ds_raises \in BOOLEAN :
        IF ds_raises THEN
            /\ bpc' = "raised"
            /\ bt_error' = Some(DataSourceError)
            /\ UNCHANGED <<trade_dates, bt_idx>>
        ELSE
            LET tds == get_trade_dates(bt_range[1], bt_range[2])
            IN  /\ trade_dates' = tds
                /\ IF Len(tds) < MinBacktestDates
                   THEN /\ bpc' = "raised"
                        /\ bt_error' = Some(BacktestDatesError)
                        /\ UNCHANGED bt_idx
                   ELSE /\ bpc' = "loop"
                        /\ bt_idx' = 1
                        /\ UNCHANGED bt_error
    /\ UNCHANGED <<bt_range, attempted, records, error_counts, error_examples,
                   mode_counts, summary>>
    /\ UNCHANGED <<env_vars, call_vars, caller, rec_vars>>

\* for dt in trade_dates[:-5]: rec = self.recommender.recommend(dt)
BtCall ==
    /\ bpc = "loop"
    /\ rpc = "idle"
    /\ bt_idx <= Len(LoopDates(trade_dates))
    /\ attempted' = Append(attempted, trade_dates[bt_idx])
    /\ BeginRecommend(trade_dates[bt_idx])
    /\ UNCHANGED <<bpc, bt_range, trade_dates, bt_idx, records, error_counts,
                   error_examples, mode_counts, summary, bt_error>>
    /\ UNCHANGED <<env_vars, call_vars, caller>>

BtSkipUncapped ==
    /\ bpc = "loop"
    /\ rpc = "raised"
    /\ LET exc == error[1]
           key == exc.type
       IN  /\ error_counts' = Inc(error_counts, key)
           /\ error_examples' =
                  Append(error_examples,
                         [trade_date |-> trade_dates[bt_idx],
                          error_type |-> key, message |-> exc.msg])
    /\ bt_idx' = bt_idx + 1
    /\ rpc' = "idle"
    /\ UNCHANGED <<bpc, bt_range, trade_dates, attempted, records, mode_counts,
                   summary, bt_error>>
    /\ UNCHANGED <<target_date, dates, signal_date, probe_bars, fresh_ok,
                   market_state, universe, enabled_modes, mode_idx, sym_idx,
                   out, stats, stats_by_mode, candidates, result, error,
                   last_run_meta, calls>>
    /\ UNCHANGED <<env_vars, call_vars, caller>>

BtSkipReraises ==
    /\ bpc = "loop"
    /\ rpc = "raised"
    /\ bpc' = "raised"
    /\ bt_error' = error
    /\ UNCHANGED <<bt_range, trade_dates, bt_idx, attempted, records,
                   error_counts, error_examples, mode_counts, summary>>
    /\ UNCHANGED <<env_vars, call_vars, caller, rec_vars>>

\* except Exception as exc: count, keep a bounded example, continue
BtSkip ==
    /\ bpc = "loop"
    /\ rpc = "raised"
    /\ LET exc == error[1]
           key == exc.type
       IN  /\ error_counts' = Inc(error_counts, key)
           /\ error_examples' =
                  IF Len(error_examples) < cfg.max_error_examples
                  THEN Append(error_examples,
                              [trade_date |-> trade_dates[bt_idx],
                               error_type |-> key, message |-> exc.msg])
                  ELSE error_examples
    /\ bt_idx' = bt_idx + 1
    /\ rpc' = "idle"
    /\ UNCHANGED <<bpc, bt_range, trade_dates, attempted, records, mode_counts,
                   summary, bt_error>>
    /\ UNCHANGED <<target_date, dates, signal_date, probe_bars, fresh_ok,
                   market_state, universe, enabled_modes, mode_idx, sym_idx,
                   out, stats, stats_by_mode, candidates, result, error,
                   last_run_meta, calls>>
    /\ UNCHANGED <<env_vars, call_vars, caller>>

\* after a successful recommend: count the mode, fetch the symbol's forward
\* bars (outside the try block), append the record
BtRecord ==
    /\ bpc = "loop"
    /\ rpc = "returned"
    /\ mode_counts' = Inc(mode_counts, result[1].threshold_mode)
    /\ \E ds_raises \in BOOLEAN :
        IF ds_raises THEN
            /\ bpc' = "raised"
            /\ bt_error' = Some(DataSourceError)
            /\ UNCHANGED <<records, bt_idx, rpc>>
        ELSE
            /\ records' = Append(records,
                   BacktestRecord(trade_dates[bt_idx], result[1], ds_closes,
                                  bt_idx, trade_dates, cfg))
            /\ bt_idx' = bt_idx + 1
            /\ rpc' = "idle"
            /\ UNCHANGED <<bpc, bt_error>>
    /\ UNCHANGED <<bt_range, trade_dates, attempted, error_counts,
                   error_examples, summary>>
    /\ UNCHANGED <<target_date, dates, signal_date, probe_bars, fresh_ok,
                   market_state, universe, enabled_modes, mode_idx, sym_idx,
                   out, stats, stats_by_mode, candidates, result, error,
                   last_run_meta, calls>>
    /\ UNCHANGED <<env_vars, call_vars, caller>>

\* return self._summary(..., len(trade_dates[:-5]), ...)
BtSummary ==
    /\ bpc = "loop"
    /\ rpc = "idle"
    /\ bt_idx > Len(LoopDates(trade_dates))
    /\ summary' = Some(_summary(records, Len(LoopDates(trade_dates)),
                                error_counts, error_examples, mode_counts))
    /\ bpc' = "done"
    /\ UNCHANGED <<bt_range, trade_dates, bt_idx, attempted, records,
                   error_counts, error_examples, mode_counts, bt_error>>
    /\ UNCHANGED <<env_vars, call_vars, caller, rec_vars>>

BacktestStep ==
    \/ BtStart
    \/ BtCall
    \/ BtSkip
    \/ BtRecord
    \/ BtSummary

----------------------------------------------------------------------------
(* The inputs: stock lists, bar lists, configurations, calendars *)

Stock(symbol, is_st, is_paused) ==
    [symbol |-> symbol, is_st |-> is_st, is_paused |-> is_paused]

\* main-board stocks that pass every filter
PlainStocks == <<Stock(<<6, 0, 0>>, FALSE, FALSE), Stock(<<0, 0, 0>>, FALSE, FALSE),
                 Stock(<<0, 0, 2>>, FALSE, FALSE), Stock(<<6, 0, 1>>, FALSE, FALSE)>>

\* stocks the filters are about: ST, paused, STAR, GEM and the two BJ prefixes
SpecialStocks == {Stock(<<6, 0, 3>>, TRUE, FALSE), Stock(<<6, 0, 5>>, FALSE, TRUE),
                  Stock(<<6, 8, 8>>, FALSE, FALSE), Stock(<<3, 0, 0>>, FALSE, FALSE),
                  Stock(<<4, 3, 0>>, FALSE, FALSE), Stock(<<8, 3, 0>>, FALSE, FALSE)}

SymbolsOf(stocks) == {stocks[i].symbol : i \in 1..Len(stocks)}

\* last rows: a steady up-trend that passes every gate
FeatStrong ==
    [close |-> 1100, ma20 |-> 1050, ma60 |-> 1000, mom5 |-> 200, mom20 |-> 500,
     rsi14 |-> 60, vol20_std |-> 200, ma20_slope5 |-> 100,
     vol_ratio_5_20 |-> 120, volume_zscore20 |-> 50, turnover_rate |-> 150]

\* ma20 below ma60 and a hot RSI: passes the relaxed rule only
FeatRelaxed ==
    [FeatStrong EXCEPT !.ma20 = 1000, !.ma60 = 1020, !.mom20 = 50, !.rsi14 = 78]

\* passes the normal rule, too volatile for the risk filter
FeatRisky == [FeatStrong EXCEPT !.vol20_std = 800, !.mom5 = 900]

\* no down day in 14 bars: rsi14 is undefined, only force takes it
FeatAllUp == [FeatStrong EXCEPT !.rsi14 = NaN, !.mom20 = 900]

\* quiet in a bull market, too volatile for a weak one
FeatWeak == [FeatStrong EXCEPT !.vol20_std = 600, !.mom20 = 300]

\* every close of the window is 0: the averages are 0, the ratios 0/0
FeatZero ==
    [close |-> 0, ma20 |-> 0, ma60 |-> 0, mom5 |-> NaN, mom20 |-> NaN,
     rsi14 |-> NaN, vol20_std |-> NaN, ma20_slope5 |-> NaN,
     vol_ratio_5_20 |-> 100, volume_zscore20 |-> NaN, turnover_rate |-> 150]

\* bar lists around the fetch outcomes and the two minimum lengths
BarLists ==
    {Bars(TRUE, 0, 0, FeatStrong),
     Bars(FALSE, 0, 0, FeatStrong),
     Bars(FALSE, MinBarsForce - 1, 1, FeatAllUp),
     Bars(FALSE, MinBarsForce, 0, FeatAllUp),
     Bars(FALSE, MinBarsRanked - 1, 1, FeatStrong),
     Bars(FALSE, MinBarsRanked, 0, FeatStrong),
     Bars(FALSE, MinBarsRanked, 1, FeatRelaxed),
     Bars(FALSE, MinBarsForce, 0, FeatZero)}

\* long bar lists that differ in what the risk filter looks at
RiskBarLists ==
    {Bars(FALSE, MinBarsForce, 0, FeatAllUp),
     Bars(FALSE, MinBarsRanked, 0, FeatStrong),
     Bars(FALSE, MinBarsRanked, 1, FeatRelaxed),
     Bars(FALSE, MinBarsRanked, 0, FeatRisky),
     Bars(FALSE, MinBarsRanked, 0, FeatWeak)}

FewBarLists ==
    {Bars(FALSE, MinBarsForce, 0, FeatAllUp),
     Bars(FALSE, MinBarsRanked, 0, FeatStrong)}

\* the few bar lists, and one too volatile for a weak market
PreflightBarLists ==
    FewBarLists \cup {Bars(FALSE, MinBarsRanked, 0, FeatWeak)}

ModeConfigs ==
    {[is_list |-> TRUE, items |-> DefaultModes],
     [is_list |-> TRUE, items |-> <<"normal">>],
     [is_list |-> TRUE, items |-> <<"normal", "relaxed">>],
     [is_list |-> TRUE, items |-> <<"force", "normal">>],
     [is_list |-> TRUE, items |-> <<"relaxed", "normal">>],
     [is_list |-> TRUE, items |-> <<" Normal ", "bogus", "normal", "FORCE">>],
     [is_list |-> TRUE, items |-> <<"bogus">>],
     [is_list |-> FALSE, items |-> <<>>]}

RankCfgs == {[DefaultCfg EXCEPT !.modes = m] : m \in ModeConfigs}

RiskCfgs ==
    {DefaultCfg,
     [DefaultCfg EXCEPT !.risk_enabled = FALSE],
     [DefaultCfg EXCEPT !.block_on_bear = FALSE],
     [DefaultCfg EXCEPT !.market_enabled = FALSE],
     [DefaultCfg EXCEPT !.require_mom20_positive = TRUE]}

FilterCfgs ==
    {DefaultCfg,
     [DefaultCfg EXCEPT !.exclude_st = FALSE],
     [DefaultCfg EXCEPT !.exclude_star = FALSE],
     [DefaultCfg EXCEPT !.exclude_gem = FALSE],
     [DefaultCfg EXCEPT !.exclude_bj = FALSE],
     [DefaultCfg EXCEPT !.exclude_st = FALSE, !.universe_limit = 1],
     [DefaultCfg EXCEPT !.exclude_bj = FALSE, !.max_symbols = 1]}

FreshCfgs ==
    {DefaultCfg,
     [DefaultCfg EXCEPT !.stop_on_stale = FALSE],
     [DefaultCfg EXCEPT !.fresh_enabled = FALSE]}

\* the day the command line asks a recommendation for
CliDay == SignalLookbackDays + ResolveSpan

\* a calendar with two trade dates before CliDay
SteadyCalendar == {CliDay - 2, CliDay - 1}

\* the non-empty lists of at most n members of S, in every order
ListsOf(S, n) ==
    UNION {{s \in [1..k -> S] : \A i, j \in 1..k : i # j => s[i] # s[j]} : k \in 1..n}

\* AkshareDataSource.__init__ on an empty cache directory
IdleDataSource ==
    /\ bars_cache = None
    /\ fetch_seq = 0

IdleRecommender ==
    /\ rpc = "idle"
    /\ dates = <<>>
    /\ signal_date = None
    /\ probe_bars = None
    /\ fresh_ok = TRUE
    /\ market_state = "unset"
    /\ universe = <<>>
    /\ enabled_modes = <<>>
    /\ mode_idx = 0
    /\ sym_idx = 0
    /\ out = <<>>
    /\ stats = ZeroStats(0)
    /\ stats_by_mode = <<>>
    /\ candidates = <<>>
    /\ result = None
    /\ error = None
    /\ last_run_meta = None
    /\ calls = ZeroCalls

\* no explain call and no function call on its own
IdleCalls ==
    /\ explain_args = None
    /\ explained = None
    /\ explain_calls = 0
    /\ stock_name_map = None
    /\ name_lookups = 0
    /\ fn_args = None
    /\ fn_ret = None

IdleBacktest ==
    /\ bpc = "idle"
    /\ trade_dates = <<>>
    /\ bt_idx = 0
    /\ attempted = <<>>
    /\ records = <<>>
    /\ error_counts = <<>>
    /\ error_examples = <<>>
    /\ mode_counts = <<>>
    /\ summary = None
    /\ bt_error = None

\* ranking: plain stocks; the mode configurations over the bar lists in a
\* bull or a bear market, the risk configurations over the risk bar lists
\* in a bear or a neutral one
InitRanking ==
    /\ ds_calendar = SteadyCalendar
    /\ target_date = CliDay
    /\ \E n \in 0..MaxStocks : ds_stocks = SubSeq(PlainStocks, 1, n)
    /\ \/ /\ cfg \in RankCfgs
          /\ ds_index \in {"bull", "bear"}
          /\ ds_bars \in [SymbolsOf(ds_stocks) -> BarLists]
       \/ /\ cfg \in RiskCfgs
          /\ ds_index \in {"bear", "neutral"}
          /\ ds_bars \in [SymbolsOf(ds_stocks) -> RiskBarLists]

\* filtering: every kind of stock, the filter configurations, few bar lists
InitFiltering ==
    /\ cfg \in FilterCfgs
    /\ ds_calendar = SteadyCalendar
    /\ target_date = CliDay
    /\ ds_stocks \in ListsOf(SpecialStocks \cup {PlainStocks[1]}, MaxStocks)
    /\ ds_bars \in [SymbolsOf(ds_stocks) -> FewBarLists]
    /\ ds_index = "bull"

\* pre-flight: the calendars around the target day, the freshness options
InitPreflight ==
    /\ cfg \in FreshCfgs
    /\ ds_calendar \in SUBSET ((CliDay - 2)..CliDay)
    /\ target_date = CliDay
    /\ ds_stocks = SubSeq(PlainStocks, 1, 1)
    /\ ds_bars \in [SymbolsOf(ds_stocks) -> PreflightBarLists]
    /\ ds_index \in {"raise", "empty", "neutral"}

Init ==
    /\ caller = "cli"
    /\ IdleRecommender
    /\ IdleDataSource
    /\ IdleBacktest
    /\ IdleCalls
    /\ bt_range = <<0, 0>>
    /\ ds_closes = <<>>
    /\ \/ InitRanking
       \/ InitFiltering
       \/ InitPreflight

\* the command line's recommend --date
CliRecommendCall ==
    /\ caller = "cli"
    /\ rpc = "idle"
    /\ BeginRecommend(target_date)
    /\ UNCHANGED <<env_vars, call_vars, caller, bt_vars>>

Next ==
    \/ CliRecommendCall
    \/ RecommendStep

Spec == Init /\ [][Next]_vars

----------------------------------------------------------------------------
(* The backtest: calendars 0..k, a range that starts on day 0 or 1 *)

BacktestCfgs ==
    {DefaultCfg,
     [DefaultCfg EXCEPT !.max_error_examples = 1],
     [DefaultCfg EXCEPT !.modes = [is_list |-> TRUE, items |-> <<"normal">>]]}

BacktestBarLists ==
    {Bars(FALSE, MinBarsRanked, 0, FeatStrong),
     Bars(FALSE, MinBarsForce, 0, FeatAllUp),
     Bars(FALSE, MinBarsForce - 1, 0, FeatAllUp),
     Bars(FALSE, MinBarsForce, 0, FeatZero)}

\* the closes the forward fetch returns, by trade date: rising; a zero close
\* on day 1; bars for days 0 and 1 only
CloseMaps ==
    {[d \in 0..MaxBacktestDay |-> 1000 + 10 * d],
     [d \in 0..MaxBacktestDay |-> IF d = 1 THEN 0 ELSE 1000 + 10 * d],
     [d \in 0..1 |-> 1000 + 10 * d]}

\* one example kept per pass and per run
CappedCfg ==
    [DefaultCfg EXCEPT !.failed_symbol_examples = 1, !.max_error_examples = 1]

\* bar fetches that raise or return nothing
FailingBarLists == {Bars(TRUE, 0, 0, FeatStrong), Bars(FALSE, 0, 0, FeatStrong)}

\* one stock that may be recommended, every configuration and close map; or
\* several stocks whose bar fetches all fail, under the capped configuration
InitBacktest ==
    /\ caller = "backtest"
    /\ IdleRecommender
    /\ IdleDataSource
    /\ IdleBacktest
    /\ IdleCalls
    /\ \E s \in 0..1 : bt_range = <<s, MaxBacktestDay>>
    /\ \E k \in (MinBacktestDates - 2)..MaxBacktestDay : ds_calendar = 0..k
    /\ \/ /\ cfg \in BacktestCfgs
          /\ ds_stocks = SubSeq(PlainStocks, 1, 1)
          /\ ds_bars \in [SymbolsOf(ds_stocks) -> BacktestBarLists]
          /\ ds_closes \in CloseMaps
       \/ /\ cfg = CappedCfg
          /\ ds_stocks = SubSeq(PlainStocks, 1, MaxStocks)
          /\ ds_bars \in [SymbolsOf(ds_stocks) -> FailingBarLists]
          /\ ds_closes = [d \in 0..MaxBacktestDay |-> 1000 + 10 * d]
    /\ ds_index = "bull"
    /\ target_date = 0

NextBacktest ==
    \/ BacktestStep
    \/ RecommendStep

SpecBacktest == InitBacktest /\ [][NextBacktest]_vars

----------------------------------------------------------------------------
(* Signal-date resolution alone: every calendar drawn from the days around *)
(* the two ends of the 30-day window                                       *)

ResolveDays ==
    (0..ResolveSpan) \cup (SignalLookbackDays..(SignalLookbackDays + ResolveSpan))

InitResolve ==
    /\ caller = "cli"
    /\ IdleRecommender
    /\ IdleDataSource
    /\ IdleBacktest
    /\ IdleCalls
    /\ bt_range = <<0, 0>>
    /\ cfg = DefaultCfg
    /\ ds_calendar \in SUBSET ResolveDays
    /\ target_date \in {SignalLookbackDays + 1, SignalLookbackDays + 2}
    /\ ds_stocks = <<>>
    /\ ds_bars = <<>>
    /\ ds_closes = <<>>
    /\ ds_index = "bull"

NextResolve ==
    \/ CliRecommendCall
    \/ ResolveSignalDate

SpecResolve == InitResolve /\ [][NextResolve]_vars

----------------------------------------------------------------------------
(* Properties of recommend's mode loop, under Spec *)

\* the call has loaded its universe and entered the mode loop
InModeLoop == enabled_modes # <<>> /\ mode_idx >= 1

\* something was done for mode m in this call
Touched(m) == calls.bars[m] > 0 \/ calls.gates[m] > 0 \/ calls.scores[m] > 0

\* C1: the enabled modes are ranked in the configured order and ranking
\* stops at the first mode that yields a candidate: every mode before the
\* current one was ranked and yielded nothing, no mode after it (and no mode
\* that is not enabled) had a bar fetch, a gate evaluation or a scoring
\* call, and a returned result carries the mode that yielded, as
\* threshold_mode.
ModesInOrderUntilFirstYield ==
    InModeLoop =>
        /\ \A i \in 1..Len(enabled_modes) :
             LET m == enabled_modes[i]
             IN  /\ i < mode_idx =>
                       /\ m \in DOMAIN stats_by_mode
                       /\ stats_by_mode[m].scored = 0
                       /\ calls.scores[m] = 0
                 /\ i > mode_idx => m \notin DOMAIN stats_by_mode /\ ~Touched(m)
        /\ \A m \in Modes \ Range(enabled_modes) :
             m \notin DOMAIN stats_by_mode /\ ~Touched(m)
        /\ rpc = "returned" =>
             /\ result[1].threshold_mode = enabled_modes[mode_idx]
             /\ calls.scores[enabled_modes[mode_idx]] >= 1

\* relaxed yielded after normal did not, and force, enabled, was never ranked
RelaxedWinsForceUntouched ==
    /\ rpc = "returned"
    /\ enabled_modes = <<"normal", "relaxed", "force">>
    /\ result[1].threshold_mode = "relaxed"
    /\ calls.bars["normal"] > 0
    /\ ~Touched("force")
    /\ \E i \in 1..Len(universe) :
         ~ds_bars[universe[i].symbol].raises
         /\ ds_bars[universe[i].symbol].n_upto >= MinBarsForce

\* C2: recommend raises the no-candidate error, and returns nothing, exactly
\* when every enabled mode was ranked to the end and none scored a symbol;
\* it never raises it when some mode scored one.
NoCandidateIffEveryModeEmpty ==
    LET all_empty ==
            /\ InModeLoop
            /\ \A m \in Range(enabled_modes) :
                 m \in DOMAIN stats_by_mode /\ stats_by_mode[m].scored = 0
    IN  /\ all_empty =>
            rpc = "raised" /\ error = Some(NoCandidateError) /\ result = None
        /\ error = Some(NoCandidateError) =>
            all_empty /\ \A m \in Modes : calls.scores[m] = 0
        /\ (\E m \in Modes : calls.scores[m] > 0) =>
            error # Some(NoCandidateError)

\* three modes ranked over a non-empty universe, none scored, the error raised
AllThreeModesEmpty ==
    /\ rpc = "raised"
    /\ error = Some(NoCandidateError)
    /\ Len(enabled_modes) = 3
    /\ universe # <<>>
    /\ \A m \in Modes : calls.bars[m] = Len(universe)

\* the position of a symbol in the universe
UniversePos(sym) ==
    CHOOSE i \in 1..Len(universe) : universe[i].symbol = sym

\* C3: the result is a candidate of the winning mode whose score_total no
\* other candidate of that mode exceeds, and every other candidate with the
\* same score_total comes later in the universe.
TopScoreEarliestOnTies ==
    rpc = "returned" =>
        LET top == result[1]
            m == top.threshold_mode
        IN  /\ Len(candidates) = stats_by_mode[m].scored
            /\ \E i \in 1..Len(candidates) :
                 /\ candidates[i].symbol = top.symbol
                 /\ candidates[i].score_total = top.score_total
                 /\ candidates[i].reason = build_reason(m)
            /\ \A j \in 1..Len(candidates) :
                 /\ candidates[j].score_total <= top.score_total
                 /\ (candidates[j].score_total = top.score_total
                     /\ candidates[j].symbol # top.symbol) =>
                        UniversePos(top.symbol) < UniversePos(candidates[j].symbol)

\* two candidates of the winning mode tie on the top score
TieOnTopScore ==
    /\ rpc = "returned"
    /\ \E i, j \in 1..Len(candidates) :
         /\ i # j
         /\ candidates[i].score_total = result[1].score_total
         /\ candidates[j].score_total = result[1].score_total

\* the symbol's bar fetch succeeds with at least n bars dated at or before
\* the signal date
FetchedAtLeast(stock, n) ==
    ~ds_bars[stock.symbol].raises /\ ds_bars[stock.symbol].n_upto >= n

\* the symbols scored so far in the current pass
OutSymbols == {out[k].symbol : k \in 1..Len(out)}

\* the recommend call has ended
CallEnded == rpc \in {"returned", "raised"}

\* C4: in a force pass every universe symbol whose fetch succeeds with at
\* least 30 bars dated at or before the signal date becomes a candidate,
\* whatever its features and the market; and when the force pass was
\* reached and such a symbol exists the call returns a recommendation made
\* in force mode.
ForceScoresEveryFetchedSymbol ==
    (InModeLoop /\ enabled_modes[mode_idx] = "force") =>
        /\ \A i \in 1..Len(universe) :
             (i < sym_idx \/ CallEnded) /\ FetchedAtLeast(universe[i], MinBarsForce)
                 => universe[i].symbol \in OutSymbols
        /\ (CallEnded /\ \E i \in 1..Len(universe) :
                             FetchedAtLeast(universe[i], MinBarsForce)) =>
             /\ rpc = "returned"
             /\ result[1].threshold_mode = "force"

\* C5: every candidate of a normal or relaxed pass has at least 70 fetched
\* bars and passes passes_threshold and passes_risk_filter for that mode on
\* its latest row, every force candidate has at least 30 bars; and a symbol
\* whose fetch raised, returned nothing or returned fewer bars than the
\* mode's minimum is not among the scored.
CandidatesPassedTheirGates ==
    InModeLoop =>
        LET m == enabled_modes[mode_idx]
            Row(sym) == LatestRow(ds_bars[sym].n_upto, ds_bars[sym].feat)
            Least == IF m = "force" THEN 30 ELSE 70
        IN  /\ \A k \in 1..Len(out) :
                 LET sym == out[k].symbol
                 IN  /\ ~ds_bars[sym].raises
                     /\ ds_bars[sym].n_upto >= Least
                     /\ m # "force" =>
                          /\ passes_threshold(Row(sym), m)
                          /\ passes_risk_filter(Row(sym), market_state, m, cfg)
            /\ \A i \in 1..Len(universe) :
                 LET b == ds_bars[universe[i].symbol]
                 IN  (b.raises \/ b.n_upto = 0 \/ b.n_upto < Least)
                         => universe[i].symbol \notin OutSymbols
            /\ calls.scores[m] = Len(out)
            /\ Range(candidates) \subseteq Range(out)

\* a normal pass scored one symbol and passed over one that has 69 bars
\* up to the signal date
NormalScoresOneSkipsShort ==
    /\ rpc = "rank"
    /\ enabled_modes[mode_idx] = "normal"
    /\ out # <<>>
    /\ \E i \in 1..Len(universe) :
         /\ i < sym_idx
         /\ FetchedAtLeast(universe[i], MinBarsRanked - 1)
         /\ ~FetchedAtLeast(universe[i], MinBarsRanked)

\* a stock the configured filters let through
EligibleStock(s) ==
    /\ ~s.is_paused
    /\ cfg.exclude_st => ~s.is_st
    /\ cfg.exclude_star => SubSeq(s.symbol, 1, 3) # <<6, 8, 8>>
    /\ cfg.exclude_gem => SubSeq(s.symbol, 1, 3) # <<3, 0, 0>>
    /\ cfg.exclude_bj => s.symbol[1] \notin {4, 8}

\* C6: in every pass of a run the universe is the same list, a prefix of
\* the eligible stocks of the stock list (all of them when no limit is
\* configured): none paused, none ST when exclude_st is set, none on an
\* excluded board; every candidate and the recommended symbol come from it.
RecommendedFromFilteredUniverse ==
    InModeLoop =>
        LET eligible == SelectSeq(ds_stocks, EligibleStock)
        IN  /\ Len(universe) <= Len(eligible)
            /\ universe = SubSeq(eligible, 1, Len(universe))
            /\ (cfg.universe_limit = 0 /\ cfg.max_symbols = 0) =>
                   universe = eligible
            /\ \A m \in DOMAIN stats_by_mode :
                 /\ stats_by_mode[m].scanned = Len(universe)
                 /\ calls.bars[m] = Len(universe)
            /\ OutSymbols \subseteq SymbolsOf(universe)
            /\ rpc = "returned" =>
                 \E i \in 1..Len(universe) :
                    /\ universe[i].symbol = result[1].symbol
                    /\ EligibleStock(universe[i])

\* exclude_st is off and the recommended stock is an ST stock that follows a
\* paused one in the stock list
StStockRecommended ==
    /\ rpc = "returned"
    /\ ~cfg.exclude_st
    /\ \E i, j \in 1..Len(ds_stocks) :
         /\ i < j
         /\ ds_stocks[i].is_paused
         /\ ds_stocks[j].is_st
         /\ ds_stocks[j].symbol = result[1].symbol

\* C8: the freshness check runs after the signal date is resolved and before
\* the stock list is fetched or a symbol ranked; it fails exactly when the
\* probe fetch raises, returns no bars, or returns bars whose latest date is
\* before the signal date; a failed check with stop_on_stale set (the
\* default) ends the call with the stale-data error and no ranking; with
\* stop_on_stale off the call goes on; a disabled check passes without a
\* probe.
FreshnessCheckGatesRanking ==
    LET ranked == calls.stock_list > 0 \/ \E m \in Modes : Touched(m)
    IN  /\ rpc = "fresh" =>
              signal_date # None /\ calls.probe = 0 /\ ~ranked
        /\ ranked =>
              /\ signal_date # None
              /\ cfg.fresh_enabled => calls.probe = 1
              /\ fresh_ok \/ ~cfg.stop_on_stale
        /\ probe_bars # None =>
              LET p == probe_bars[1]
              IN  /\ fresh_ok = ~(\/ p.raises
                                  \/ ~p.has_bars
                                  \/ p.last_date < signal_date[1])
                  /\ ~ranked
        /\ ~cfg.fresh_enabled => fresh_ok /\ calls.probe = 0
        /\ (~fresh_ok /\ cfg.stop_on_stale) =>
              /\ rpc = "raised"
              /\ error = Some(StaleDataError)
              /\ result = None
              /\ ~ranked
        /\ error = Some(StaleDataError) => ~fresh_ok /\ cfg.stop_on_stale

\* the check failed, stop_on_stale is off, and the call went on to return a
\* recommendation
StaleWarnedThenRecommended ==
    /\ rpc = "returned"
    /\ cfg.fresh_enabled
    /\ ~cfg.stop_on_stale
    /\ ~fresh_ok

----------------------------------------------------------------------------
(* Signal-date resolution, under SpecResolve *)

\* C7: resolve_signal_date looks at the trade dates of the 30 days up to and
\* including the target; with fewer than 2 of them it raises; otherwise it
\* returns the trade date just before the target when the target is a trade
\* date, else the latest trade date of the window; what it returns is
\* strictly before the target.
SignalDateIsLastTradeDateBeforeTarget ==
    LET window == {d \in ds_calendar :
                     target_date - 30 <= d /\ d <= target_date}
        before == {d \in window : d < target_date}
        Latest(S) == CHOOSE d \in S : \A e \in S : e <= d
    IN  /\ signal_date # None =>
              /\ Cardinality(window) >= 2
              /\ signal_date[1] < target_date
              /\ signal_date[1] = IF target_date \in ds_calendar
                                  THEN Latest(before) ELSE Latest(window)
        /\ error = Some(NoTradeDatesError) =>
              Cardinality(window) < 2 /\ signal_date = None
        /\ (rpc \in {"fresh", "raised"} /\ error # Some(DataSourceError)) =>
              (Cardinality(window) < 2 <=> error = Some(NoTradeDatesError))

\* the target is a trade date, the date before it is the first day of the
\* window, and the calendar holds a day before the window
SignalDateAtWindowStart ==
    /\ rpc = "fresh"
    /\ target_date \in ds_calendar
    /\ signal_date = Some(target_date - SignalLookbackDays)
    /\ \E d \in ds_calendar : d < target_date - SignalLookbackDays

----------------------------------------------------------------------------
(* The backtest loop, under SpecBacktest *)

\* the sum of a counter's counts
CounterTotal(counter) ==
    LET F[K \in SUBSET DOMAIN counter] ==
            IF K = {} THEN 0
            ELSE LET k == CHOOSE x \in K : TRUE
                 IN  counter[k] + F[K \ {k}]
    IN  F[DOMAIN counter]

\* run has returned or raised
RunEnded == bpc \in {"done", "raised"}

\* C9: once the trade dates are fetched, run raises when they are fewer than
\* 8, and otherwise attempts exactly the first N-5 of the N dates in
\* ascending order and returns a summary with attempted_days = N-5 =
\* total_trades + skipped_days.
RunAttemptsAllButLastFive ==
    (RunEnded /\ trade_dates # <<>>) =>
        LET N == Len(trade_dates)
        IN  IF N < 8
            THEN bpc = "raised" /\ bt_error = Some(BacktestDatesError)
                 /\ attempted = <<>>
            ELSE /\ attempted = SubSeq(trade_dates, 1, N - 5)
                 /\ summary # None
                 /\ summary[1].attempted_days = N - 5
                 /\ summary[1].attempted_days =
                        summary[1].total_trades + summary[1].skipped_days

\* the step run takes when recommend has raised: the date is skipped
SkipStep ==
    (bpc = "loop" /\ rpc = "raised") =>
        /\ bpc' = "loop"
        /\ bt_error' = None
        /\ bt_idx' = bt_idx + 1
        /\ attempted' = attempted
        /\ records' = records
        /\ mode_counts' = mode_counts
        /\ DOMAIN error_counts' = DOMAIN error_counts \cup {error[1].type}
        /\ \A k \in DOMAIN error_counts' :
             error_counts'[k] =
                 (IF k \in DOMAIN error_counts THEN error_counts[k] ELSE 0)
                 + (IF k = error[1].type THEN 1 ELSE 0)

\* between two days every attempted date is a record or a counted error
DaysAccounted ==
    /\ (bpc = "loop" /\ rpc = "idle") =>
          /\ Len(attempted) = bt_idx - 1
          /\ Len(attempted) = Len(records) + CounterTotal(error_counts)
    /\ \A i \in 1..Len(error_examples), j \in 1..Len(records) :
          error_examples[i].trade_date # records[j].trade_date
    /\ (bpc = "raised" /\ Len(trade_dates) >= MinBacktestDates) =>
          rpc = "returned"
    /\ bpc = "done" =>
          /\ attempted = LoopDates(trade_dates)
          /\ summary[1].skipped_days = CounterTotal(error_counts)
          /\ summary[1].error_counts = error_counts

\* C10: a recommend call that raises, whatever it raises, does not end the
\* run: the next step counts the error under its type name, appends no
\* record, and moves to the next date; every attempted date ends as a
\* record or a counted error, no date as both; the run is only ever left
\* from inside the loop after a recommend call that returned; and a run that
\* completes has attempted all N-5 dates.
RecommendFailureSkipsTheDay == []DaysAccounted /\ [][SkipStep]_vars

\* a completed run with errors of two kinds and a record for a later date
\* than a skipped one
RunCompletesAcrossFailures ==
    /\ bpc = "done"
    /\ Cardinality(DOMAIN error_counts) >= 2
    /\ \E i \in 1..Len(error_examples), j \in 1..Len(records) :
          error_examples[i].trade_date < records[j].trade_date

\* C11: past the initial trade-date fetch no data-source failure ends the
\* run with an exception, the forward-bar fetch after a successful
\* recommendation included: run raises only before its first attempted date,
\* and it ends with a summary over all N-5 dates in which every date without
\* a record is a counted skip.
DataSourceFailureNeverAbortsRun ==
    /\ bpc = "raised" => attempted = <<>>
    /\ (RunEnded /\ Len(trade_dates) >= MinBacktestDates) =>
          /\ bpc = "done"
          /\ attempted = LoopDates(trade_dates)
          /\ Len(attempted) = Len(records) + CounterTotal(error_counts)

----------------------------------------------------------------------------
(* Errors inside a ranking pass, under Spec *)

\* C12: an error raised while one symbol is processed (bar fetch, indicators,
\* gates or scoring) is caught and counted for that symbol: a call that has
\* entered the mode loop ends only with a result or with the no-candidate
\* error, and only after its last pass has gone through every universe
\* symbol.
SymbolErrorsStayInThePass ==
    (InModeLoop /\ CallEnded) =>
        /\ error \in {None, Some(NoCandidateError)}
        /\ sym_idx = Len(universe) + 1
        /\ stats.scanned = Len(universe)

----------------------------------------------------------------------------
(* The forward return and the cost model called on their own, as the tests *)
(* call them: closes in cents on the trade dates 1..6                      *)

\* closes 10, 11, 9, 12, 12.5, 13 on six consecutive trade dates
ExampleDates == <<1, 2, 3, 4, 5, 6>>

ExampleCloses == <<1000, 1100, 900, 1200, 1250, 1300>>

\* what the bar of a date may be: its price, no bar, a zero or a negative close
CloseKinds == {"price", "missing", "zero", "negative"}

\* the example's closes with the bars of two dates as given
CloseMapWith(d1, kind1, d2, kind2) ==
    LET kind(d) == IF d = d1 THEN kind1 ELSE IF d = d2 THEN kind2 ELSE "price"
        have == {d \in 1..Len(ExampleDates) : kind(d) # "missing"}
    IN  [d \in have |-> CASE kind(d) = "zero" -> 0
                          [] kind(d) = "negative" -> -10
                          [] OTHER -> ExampleCloses[d]]

\* gross returns around the total loss, the flat move and large gains
GrossReturns ==
    {None} \cup {Some(g) : g \in {-20000, -10100, -10001, -10000, -9999, -5000,
                                  -1, 0, 1, 1000, 3000, 10000, 30000}}

\* execution_cost options: the defaults, no cost at all, one positive
\* parameter at a time, heavy costs, and the cost model switched off
CostCfgs ==
    LET Free == [DefaultCfg EXCEPT !.commission_rate = 0,
                                   !.stamp_duty_sell_rate = 0,
                                   !.slippage_bps = 0,
                                   !.min_commission_per_side = 0]
    IN  {DefaultCfg, Free,
         [Free EXCEPT !.commission_rate = 1],
         [Free EXCEPT !.stamp_duty_sell_rate = 1],
         [Free EXCEPT !.slippage_bps = 1],
         [Free EXCEPT !.min_commission_per_side = 3],
         [DefaultCfg EXCEPT !.commission_rate = 30, !.stamp_duty_sell_rate = 10,
                            !.slippage_bps = 100, !.min_commission_per_side = 50],
         [DefaultCfg EXCEPT !.cost_enabled = FALSE],
         [Free EXCEPT !.cost_enabled = FALSE]}

\* the calls: _calc_forward_return(close_map, dt, trade_dates, step) with dt
\* the idx-th trade date, _apply_round_trip_cost(gross_ret), and the record
\* run builds from both
ReturnCalls ==
    {[fn |-> f, close_map |-> CloseMapWith(i, k1, i + st, k2), idx |-> i,
      tds |-> ExampleDates, step |-> st] :
        f \in {"_calc_forward_return", "BacktestRecord"},
        i \in 1..2, st \in {1, 5}, k1 \in CloseKinds, k2 \in CloseKinds}
    \cup {[fn |-> "_apply_round_trip_cost", gross_ret |-> g] : g \in GrossReturns}

InitReturns ==
    /\ caller = "test"
    /\ IdleRecommender
    /\ IdleDataSource
    /\ IdleBacktest
    /\ bt_range = <<0, 0>>
    /\ cfg \in CostCfgs
    /\ ds_calendar = {}
    /\ ds_stocks = <<>>
    /\ ds_bars = <<>>
    /\ ds_closes = <<>>
    /\ ds_index = "bull"
    /\ target_date = 0
    /\ explain_args = None
    /\ explained = None
    /\ explain_calls = 0
    /\ stock_name_map = None
    /\ name_lookups = 0
    /\ fn_args \in {Some(c) : c \in ReturnCalls}
    /\ fn_ret = None

\* the call is made and its value kept
FnReturn(v) ==
    /\ fn_ret' = Some(v)
    /\ UNCHANGED <<explain_args, explained, explain_calls, stock_name_map,
                   name_lookups, fn_args>>
    /\ UNCHANGED <<env_vars, caller, rec_vars, bt_vars>>

CallCalcForwardReturn ==
    /\ fn_args # None /\ fn_ret = None
    /\ fn_args[1].fn = "_calc_forward_return"
    /\ LET a == fn_args[1]
       IN  FnReturn(_calc_forward_return(a.close_map, a.idx, a.tds, a.step))

CallApplyRoundTripCost ==
    /\ fn_args # None /\ fn_ret = None
    /\ fn_args[1].fn = "_apply_round_trip_cost"
    /\ FnReturn(_apply_round_trip_cost(fn_args[1].gross_ret, cfg))

\* the forward returns of one day as run records them
CallBacktestRecord ==
    /\ fn_args # None /\ fn_ret = None
    /\ fn_args[1].fn = "BacktestRecord"
    /\ LET a == fn_args[1]
           rec == [symbol |-> PlainStocks[1].symbol, threshold_mode |-> "normal"]
       IN  FnReturn(BacktestRecord(a.tds[a.idx], rec, a.close_map, a.idx,
                                   a.tds, cfg))

NextReturns ==
    \/ CallCalcForwardReturn
    \/ CallApplyRoundTripCost
    \/ CallBacktestRecord

SpecReturns == InitReturns /\ [][NextReturns]_vars

\* C13: _calc_forward_return(step) is close[t+step] / close[t] - 1 when
\* t+step lies inside the trade dates and both closes exist and are
\* positive, and None when the offset is out of range or the entry or the
\* exit close is missing or not positive; on the closes 10, 11, 9, 12, 12.5,
\* 13 the 1-step return from the first date is 0.10 and the 5-step return
\* 0.30.
ForwardReturnNeedsBothClosesPositive ==
    (fn_ret # None /\ fn_args[1].fn = "_calc_forward_return") =>
        LET a == fn_args[1]
            m == a.close_map
            inside == a.idx + a.step <= Len(a.tds)
            good(d) == d \in DOMAIN m /\ m[d] > 0
        IN  /\ IF inside /\ good(a.tds[a.idx]) /\ good(a.tds[a.idx + a.step])
               THEN fn_ret[1] =
                        Some((m[a.tds[a.idx + a.step]] * 10000)
                                 \div m[a.tds[a.idx]] - 10000)
               ELSE fn_ret[1] = None
            /\ (a.idx = 1 /\ \A d \in 1..6 : good(d) /\ m[d] = ExampleCloses[d]) =>
                   fn_ret[1] = IF a.step = 1 THEN Some(1000) ELSE Some(3000)

SomeCost(c) ==
    /\ c.commission_rate >= 0 /\ c.stamp_duty_sell_rate >= 0
    /\ c.slippage_bps >= 0 /\ c.min_commission_per_side >= 0
    /\ c.commission_rate + c.stamp_duty_sell_rate + c.slippage_bps
           + c.min_commission_per_side > 0

\* C15: _apply_round_trip_cost(0.0) is exactly 0.0 when slippage and all fees
\* are zero and strictly negative under the default costs; with the cost
\* model enabled and some cost parameter positive (none negative) the net
\* return is strictly below every gross return above -1.0; with the cost
\* model disabled the net return is the gross return.
RoundTripAlwaysCosts ==
    (fn_ret # None /\ fn_args[1].fn = "_apply_round_trip_cost") =>
        LET gross == fn_args[1].gross_ret
            net == fn_ret[1]
        IN  /\ ~cfg.cost_enabled => net = gross
            /\ (cfg.cost_enabled /\ gross # None) =>
                  /\ net # None
                  /\ (gross = Some(0) /\ ~SomeCost(cfg)) => net = Some(0)
                  /\ (gross = Some(0) /\ cfg = DefaultCfg) => net[1] < 0
                  /\ (SomeCost(cfg) /\ gross[1] > -10000) => net[1] < gross[1]

\* a flat move under a configuration whose only cost is the minimum
\* commission per side
FlatMoveLosesTheMinimumFee ==
    /\ fn_ret # None /\ cfg.cost_enabled
    /\ fn_args[1].fn = "_apply_round_trip_cost"
    /\ cfg.commission_rate = 0 /\ cfg.stamp_duty_sell_rate = 0
    /\ cfg.slippage_bps = 0 /\ cfg.min_commission_per_side > 0
    /\ fn_args[1].gross_ret = Some(0)
    /\ fn_ret[1][1] < 0

----------------------------------------------------------------------------
(* passes_threshold called on its own, on rows around every boundary of    *)
(* the three rules                                                         *)

ThresholdRows ==
    {[FeatStrong EXCEPT !.close = c, !.ma20 = m20, !.ma60 = m60,
                        !.mom20 = mo, !.rsi14 = r] :
        c \in {1000, 1050, 1100},
        m20 \in {NaN, 1000, 1050},
        m60 \in {NaN, 1000, 1050, 1100},
        mo \in {NaN, -10000, -9999, -100, -99, 0, 1, 500},
        r \in {NaN, 0, 29, 30, 34, 35, 75, 76, 80, 81, 100}}

InitThreshold ==
    /\ caller = "test"
    /\ IdleRecommender
    /\ IdleDataSource
    /\ IdleBacktest
    /\ bt_range = <<0, 0>>
    /\ cfg = DefaultCfg
    /\ ds_calendar = {}
    /\ ds_stocks = <<>>
    /\ ds_bars = <<>>
    /\ ds_closes = <<>>
    /\ ds_index = "bull"
    /\ target_date = 0
    /\ explain_args = None
    /\ explained = None
    /\ explain_calls = 0
    /\ stock_name_map = None
    /\ name_lookups = 0
    /\ fn_args \in {Some([fn |-> "passes_threshold", latest |-> row, mode |-> m]) :
                       row \in ThresholdRows, m \in Modes}
    /\ fn_ret = None

CallPassesThreshold ==
    /\ fn_args # None /\ fn_ret = None
    /\ fn_args[1].fn = "passes_threshold"
    /\ FnReturn(passes_threshold(fn_args[1].latest, fn_args[1].mode))

NextThreshold == CallPassesThreshold

SpecThreshold == InitThreshold /\ [][NextThreshold]_vars

\* passes_threshold has been called and has returned
ThresholdCalled == fn_ret # None /\ fn_args[1].fn = "passes_threshold"

\* C16: passes_threshold(row, mode) is true exactly when ma20 and ma60 are
\* defined, close > ma20, ma20 > ma60 if the mode is normal, mom20 is defined
\* and above the mode's floor (0, -0.01, -1.0) and rsi14 is defined and inside
\* the mode's band (35..75, 30..80, 0..100), ends included.
ThresholdIsTheRule ==
    ThresholdCalled =>
        LET row == fn_args[1].latest
            mode == fn_args[1].mode
            floor == CASE mode = "normal" -> 0
                       [] mode = "relaxed" -> -100
                       [] mode = "force" -> -10000
            lo == CASE mode = "normal" -> 35 [] mode = "relaxed" -> 30
                    [] mode = "force" -> 0
            hi == CASE mode = "normal" -> 75 [] mode = "relaxed" -> 80
                    [] mode = "force" -> 100
        IN  fn_ret[1] =
                (/\ ~IsNaN(row.ma20) /\ ~IsNaN(row.ma60)
                 /\ row.close > row.ma20
                 /\ (mode = "normal" => row.ma20 > row.ma60)
                 /\ ~IsNaN(row.mom20) /\ row.mom20 > floor
                 /\ ~IsNaN(row.rsi14) /\ lo <= row.rsi14 /\ row.rsi14 <= hi)

\* C17 as claimed: passes_threshold(row, "force") is true for every row whose
\* ma20 and ma60 are defined (with mom20 > -1).
ForcePassesEveryDefinedRow ==
    (/\ ThresholdCalled
     /\ fn_args[1].mode = "force"
     /\ ~IsNaN(fn_args[1].latest.ma20) /\ ~IsNaN(fn_args[1].latest.ma60)
     /\ ~IsNaN(fn_args[1].latest.mom20) /\ fn_args[1].latest.mom20 > -10000)
        => fn_ret[1] = TRUE

\* C17, amended: passes_threshold(row, "force") is true for every row whose
\* ma20 and ma60 are defined, whose close is above ma20 and whose rsi14 is
\* defined (with mom20 > -1); it is false when ma20 or ma60 is undefined, when
\* close <= ma20 and when rsi14 is undefined.
ForcePassesAboveMa20WithRsi ==
    (ThresholdCalled /\ fn_args[1].mode = "force") =>
        LET row == fn_args[1].latest
        IN  /\ (/\ ~IsNaN(row.ma20) /\ ~IsNaN(row.ma60)
                /\ row.close > row.ma20
                /\ ~IsNaN(row.rsi14)
                /\ ~IsNaN(row.mom20) /\ row.mom20 > -10000) => fn_ret[1] = TRUE
            /\ (IsNaN(row.ma20) \/ IsNaN(row.ma60)) => fn_ret[1] = FALSE
            /\ row.close <= row.ma20 => fn_ret[1] = FALSE
            /\ IsNaN(row.rsi14) => fn_ret[1] = FALSE

\* force rejects a row with every field defined whose close is at ma20
ForceRejectsCloseAtMa20 ==
    /\ ThresholdCalled
    /\ fn_args[1].mode = "force"
    /\ ~IsNaN(fn_args[1].latest.ma20) /\ ~IsNaN(fn_args[1].latest.ma60)
    /\ ~IsNaN(fn_args[1].latest.rsi14)
    /\ fn_args[1].latest.mom20 > -10000
    /\ fn_args[1].latest.close = fn_args[1].latest.ma20
    /\ fn_ret[1] = FALSE

----------------------------------------------------------------------------
(* compute_score called on its own, on rows with fields undefined, zero    *)
(* and beyond both ends of every clip range, under several weightings      *)

ScoreRows ==
    {[FeatStrong EXCEPT !.close = c, !.ma20 = m20, !.ma60 = m60, !.mom5 = m5,
                        !.mom20 = mo, !.vol20_std = v, !.ma20_slope5 = sl,
                        !.vol_ratio_5_20 = vr, !.volume_zscore20 = z] :
        c \in {0, 1000, 1100},
        m20 \in {NaN, 0, 900, 1000, 1200},
        m60 \in {NaN, 0, 1000},
        m5 \in {NaN, -900, 200, 1300},
        mo \in {NaN, 3000},
        v \in {NaN, 50, 900},
        sl \in {NaN, 500},
        vr \in {NaN, 250},
        z \in {NaN, 300}}

\* strategy.weights: the defaults, the tests' weights, one weight alone,
\* a negative weight among positive ones, none positive
WeightCfgs ==
    {[DefaultCfg EXCEPT !.weights = w] :
        w \in {DefaultCfg.weights,
               [trend |-> 40, momentum |-> 40, stability |-> 20, volume |-> 15],
               [trend |-> 0, momentum |-> 0, stability |-> 0, volume |-> 1],
               [trend |-> -35, momentum |-> 35, stability |-> 15, volume |-> 15],
               [trend |-> 0, momentum |-> 0, stability |-> 0, volume |-> 0],
               [trend |-> -10, momentum |-> 0, stability |-> -5, volume |-> 0]}}

InitScore ==
    /\ caller = "test"
    /\ IdleRecommender
    /\ IdleDataSource
    /\ IdleBacktest
    /\ bt_range = <<0, 0>>
    /\ cfg \in WeightCfgs
    /\ ds_calendar = {}
    /\ ds_stocks = <<>>
    /\ ds_bars = <<>>
    /\ ds_closes = <<>>
    /\ ds_index = "bull"
    /\ target_date = 0
    /\ explain_args = None
    /\ explained = None
    /\ explain_calls = 0
    /\ stock_name_map = None
    /\ name_lookups = 0
    /\ fn_args \in {Some([fn |-> "compute_score", latest |-> row]) :
                       row \in ScoreRows}
    /\ fn_ret = None

\* the call raises ZeroDivisionError on a zero divisor and returns the
\* (total, breakdown) pair otherwise
CallComputeScore ==
    /\ fn_args # None /\ fn_ret = None
    /\ fn_args[1].fn = "compute_score"
    /\ IF ZeroDivides(fn_args[1].latest)
       THEN FnReturn([raised |-> Some(ZeroDivisionError), value |-> None])
       ELSE FnReturn([raised |-> None,
                      value |-> Some(compute_score(fn_args[1].latest, cfg))])

NextScore == CallComputeScore

SpecScore == InitScore /\ [][NextScore]_vars

\* compute_score has been called and has returned or raised
ScoreCalled == fn_ret # None /\ fn_args[1].fn = "compute_score"

\* C18: for every weighting and every feature row compute_score returns a
\* score_total in [0, 100] and the four sub-scores trend, momentum,
\* stability and volume each in [0, 100].
ScoresWithinZeroToHundred ==
    ScoreCalled =>
        /\ fn_ret[1].value # None
        /\ LET sc == fn_ret[1].value[1]
           IN  /\ 0 <= sc.total /\ sc.total <= 10000
               /\ \A k \in {"trend", "momentum", "stability", "volume"} :
                      0 <= sc.breakdown[k] /\ sc.breakdown[k] <= 10000

\* C19: compute_score never fails: for every feature row, with fields
\* defined or undefined, and every weighting it raises nothing and returns a
\* defined score, and when no weight is positive the total is 0.
ComputeScoreNeverFails ==
    ScoreCalled =>
        /\ fn_ret[1].raised = None
        /\ fn_ret[1].value # None
        /\ ~IsNaN(fn_ret[1].value[1].total)
        /\ (\A k \in DOMAIN cfg.weights : cfg.weights[k] <= 0) =>
               fn_ret[1].value[1].total = 0

----------------------------------------------------------------------------
(* Recommender.explain, one action per step of the call *)

NoBarsError == Exc("RuntimeError", "No bars found for symbol")

ThresholdRejectedError(mode) ==
    Exc("RuntimeError",
        CASE mode = "normal" -> "symbol does not pass normal threshold"
          [] mode = "relaxed" -> "symbol does not pass relaxed threshold"
          [] mode = "force" -> "symbol does not pass force threshold")

RiskRejectedError(mode) ==
    Exc("RuntimeError",
        CASE mode = "normal" -> "symbol does not pass risk filter in normal mode"
          [] mode = "relaxed" -> "symbol does not pass risk filter in relaxed mode"
          [] mode = "force" -> "symbol does not pass risk filter in force mode")

ExplainRejectionNormalRule(latest, market, mode, c) ==
    IF ~passes_threshold(latest, "normal")
    THEN Some(ThresholdRejectedError(mode))
    ELSE IF ~passes_risk_filter(latest, market, mode, c)
    THEN Some(RiskRejectedError(mode))
    ELSE None

ExplainRejectionThresholdOnly(latest, market, mode, c) ==
    IF ~passes_threshold(latest, mode) THEN Some(ThresholdRejectedError(mode))
    ELSE None

\* the two `if not ...: raise RuntimeError(...)` of explain: the error
\* raised for the row, or None
ExplainRejection(latest, market, mode, c) ==
    IF ~passes_threshold(latest, mode) THEN Some(ThresholdRejectedError(mode))
    ELSE IF ~passes_risk_filter(latest, market, mode, c)
    THEN Some(RiskRejectedError(mode))
    ELSE None

\* stock.name of the stock list's entry for the symbol
StockName(symbol) == [listed |-> TRUE, symbol |-> symbol]

\* the symbol string itself, used where a name is expected
SymbolAsName(symbol) == [listed |-> FALSE, symbol |-> symbol]

_resolve_stock_name_retry(name_map, list_raises, symbol) ==
    LET build == name_map = None
        built == IF ~build THEN name_map[1]
                 ELSE IF list_raises THEN <<>>
                 ELSE [i \in 1..Len(ds_stocks) |->
                          [symbol |-> ds_stocks[i].symbol,
                           name |-> StockName(ds_stocks[i].symbol)]]
        hits == {i \in 1..Len(built) : built[i].symbol = symbol}
    IN  [map |-> IF build /\ list_raises THEN None ELSE Some(built),
         fetched |-> build,
         name |-> IF hits = {} THEN SymbolAsName(symbol)
                  ELSE built[CHOOSE i \in hits : TRUE].name]

\* _resolve_stock_name: the map is built from get_stock_list() when it is
\* still None and is left empty when that call raises; the result is the
\* map the Recommender keeps, whether the stock list was fetched, and
\* map.get(symbol, symbol).  The map is the sequence of its entries.
_resolve_stock_name(name_map, list_raises, symbol) ==
    LET build == name_map = None
        built == IF ~build THEN name_map[1]
                 ELSE IF list_raises THEN <<>>
                 ELSE [i \in 1..Len(ds_stocks) |->
                          [symbol |-> ds_stocks[i].symbol,
                           name |-> StockName(ds_stocks[i].symbol)]]
        hits == {i \in 1..Len(built) : built[i].symbol = symbol}
    IN  [map |-> Some(built),
         fetched |-> build,
         name |-> IF hits = {} THEN SymbolAsName(symbol)
                  ELSE built[CHOOSE i \in hits : TRUE].name]

\* the command line's explain --symbol --date --mode
CliExplainCall ==
    /\ caller = "cli"
    /\ rpc = "idle"
    /\ explain_args # None
    /\ explain_calls = 0
    /\ explain_calls' = 1
    /\ rpc' = "explain_resolve"
    /\ UNCHANGED <<target_date, dates, signal_date, probe_bars, fresh_ok,
                   market_state, universe, enabled_modes, mode_idx, sym_idx,
                   out, stats, stats_by_mode, candidates, result, error,
                   last_run_meta, calls>>
    /\ UNCHANGED <<env_vars, caller, bt_vars, explain_args, explained,
                   stock_name_map, name_lookups, fn_args, fn_ret>>

\* a further explain(symbol, target_date, mode) on the same Recommender,
\* after the previous call has returned or raised: the locals of the call
\* start afresh, the instance fields stay
ExplainCallAgain ==
    /\ caller = "cli"
    /\ rpc \in {"returned", "raised"}
    /\ explain_calls \in 1..(MaxExplainCalls - 1)
    /\ explain_calls' = explain_calls + 1
    /\ \E m \in Modes :
           explain_args' = Some([symbol |-> explain_args[1].symbol, mode |-> m])
    /\ explained' = None
    /\ error' = None
    /\ dates' = <<>>
    /\ signal_date' = None
    /\ market_state' = "unset"
    /\ calls' = ZeroCalls
    /\ rpc' = "explain_resolve"
    /\ UNCHANGED <<target_date, probe_bars, fresh_ok, universe, enabled_modes,
                   mode_idx, sym_idx, out, stats, stats_by_mode, candidates,
                   result, last_run_meta>>
    /\ UNCHANGED <<env_vars, caller, bt_vars, stock_name_map, name_lookups,
                   fn_args, fn_ret>>

\* signal_date = self.resolve_signal_date(target_date)
ExplainResolveSignalDate ==
    /\ rpc = "explain_resolve"
    /\ calls' = [calls EXCEPT !.trade_dates = @ + 1]
    /\ \E ds_raises \in BOOLEAN :
        IF ds_raises THEN
            /\ RecRaise(DataSourceError)
            /\ UNCHANGED <<dates, signal_date>>
        ELSE
            LET got == get_trade_dates(target_date - SignalLookbackDays, target_date)
                sig == resolve_signal_date(got, target_date)
            IN  /\ dates' = got
                /\ IF sig = None
                   THEN RecRaise(NoTradeDatesError) /\ UNCHANGED signal_date
                   ELSE /\ signal_date' = sig
                        /\ rpc' = "explain_market"
                        /\ UNCHANGED error
    /\ UNCHANGED <<target_date, probe_bars, fresh_ok, market_state, universe,
                   enabled_modes, mode_idx, sym_idx, out, stats, stats_by_mode,
                   candidates, result, last_run_meta>>
    /\ UNCHANGED <<env_vars, call_vars, caller, bt_vars>>

\* market_state, _ = self._resolve_market_state(signal_date)
ExplainMarketState ==
    /\ rpc = "explain_market"
    /\ market_state' = _resolve_market_state(cfg, ds_index)
    /\ calls' = [calls EXCEPT !.index = IF cfg.market_enabled THEN @ + 1 ELSE @]
    /\ rpc' = "explain_bars"
    /\ UNCHANGED <<target_date, dates, signal_date, probe_bars, fresh_ok,
                   universe, enabled_modes, mode_idx, sym_idx, out, stats,
                   stats_by_mode, candidates, result, error, last_run_meta>>
    /\ UNCHANGED <<env_vars, call_vars, caller, bt_vars>>

\* bars = self._fetch_recent_bars(symbol, signal_date); the df.empty test
ExplainFetchBars ==
    /\ rpc = "explain_bars"
    /\ LET a == explain_args[1]
           bars == ds_bars[a.symbol]
       IN  /\ calls' = [calls EXCEPT !.bars[a.mode] = @ + 1]
           /\ IF bars.raises THEN RecRaise(DataSourceError)
              ELSE IF _fetch_recent_bars(bars) = 0 THEN RecRaise(NoBarsError)
              ELSE rpc' = "explain_gates" /\ UNCHANGED error
    /\ UNCHANGED <<target_date, dates, signal_date, probe_bars, fresh_ok,
                   market_state, universe, enabled_modes, mode_idx, sym_idx,
                   out, stats, stats_by_mode, candidates, result,
                   last_run_meta>>
    /\ UNCHANGED <<env_vars, call_vars, caller, bt_vars>>

\* the two gates for the given mode, compute_score, the CandidateScore with
\* the name _resolve_stock_name gives
ExplainGates ==
    /\ rpc = "explain_gates"
    /\ LET a == explain_args[1]
           bars == ds_bars[a.symbol]
           latest == LatestRow(_fetch_recent_bars(bars), bars.feat)
           rejection == ExplainRejection(latest, market_state, a.mode, cfg)
           scored == rejection = None /\ ~ZeroDivides(latest)
       IN  /\ calls' = [calls EXCEPT
                  !.gates[a.mode] = @ + 1,
                  !.scores[a.mode] = IF scored THEN @ + 1 ELSE @]
           /\ IF rejection # None THEN
                  /\ RecRaise(rejection[1])
                  /\ UNCHANGED <<explained, stock_name_map, name_lookups>>
              ELSE IF ZeroDivides(latest) THEN
                  /\ RecRaise(ZeroDivisionError)
                  /\ UNCHANGED <<explained, stock_name_map, name_lookups>>
              ELSE \E list_raises \in BOOLEAN :
                  LET named == _resolve_stock_name(stock_name_map,
                                                   list_raises, a.symbol)
                  IN  /\ stock_name_map # None => ~list_raises
                      /\ stock_name_map' = named.map
                      /\ name_lookups' = IF named.fetched
                                         THEN name_lookups + 1
                                         ELSE name_lookups
                      /\ explained' =
                             Some([name |-> named.name] @@
                                  CandidateScore([symbol |-> a.symbol],
                                                 compute_score(latest, cfg),
                                                 latest, a.mode))
                      /\ rpc' = "returned"
                      /\ UNCHANGED error
    /\ UNCHANGED <<target_date, dates, signal_date, probe_bars, fresh_ok,
                   market_state, universe, enabled_modes, mode_idx, sym_idx,
                   out, stats, stats_by_mode, candidates, result,
                   last_run_meta>>
    /\ UNCHANGED <<env_vars, caller, bt_vars, explain_args, explain_calls,
                   fn_args, fn_ret>>

ExplainStep ==
    \/ ExplainResolveSignalDate
    \/ ExplainMarketState
    \/ ExplainFetchBars
    \/ ExplainGates

\* one symbol, listed or missing from the stock list, any of its bar lists,
\* the risk and market options, a bull, bear or unavailable index, a
\* calendar with or without two trade dates
InitExplain ==
    /\ caller = "cli"
    /\ IdleRecommender
    /\ IdleDataSource
    /\ IdleBacktest
    /\ bt_range = <<0, 0>>
    /\ cfg \in RiskCfgs
    /\ ds_calendar \in {SteadyCalendar, {CliDay - 1}}
    /\ target_date = CliDay
    /\ ds_stocks \in {SubSeq(PlainStocks, 1, n) : n \in 0..1}
    /\ ds_bars \in [{PlainStocks[1].symbol} -> BarLists \cup RiskBarLists]
    /\ ds_closes = <<>>
    /\ ds_index \in {"bull", "bear", "neutral", "raise"}
    /\ explain_args \in {Some([symbol |-> PlainStocks[1].symbol, mode |-> m]) :
                            m \in Modes}
    /\ explained = None
    /\ explain_calls = 0
    /\ stock_name_map = None
    /\ name_lookups = 0
    /\ fn_args = None
    /\ fn_ret = None

NextExplain ==
    \/ CliExplainCall
    \/ ExplainCallAgain
    \/ ExplainStep

SpecExplain == InitExplain /\ [][NextExplain]_vars

\* the latest feature row of the explained symbol at the signal date
ExplainedRow ==
    LET bars == ds_bars[explain_args[1].symbol]
    IN  LatestRow(bars.n_upto, bars.feat)

\* C20: explain(symbol, target_date, mode) returns a CandidateScore only if
\* the symbol's latest row at the signal date passes passes_threshold and
\* passes_risk_filter for the given mode; once the bars are fetched, no bars,
\* a failed threshold and a failed risk filter each end the call with their
\* own error; and nothing is fetched, gated or scored for any other mode.
ExplainReturnsOnlyThroughBothGates ==
    explain_args # None =>
        LET a == explain_args[1]
            bars == ds_bars[a.symbol]
            through == /\ passes_threshold(ExplainedRow, a.mode)
                       /\ passes_risk_filter(ExplainedRow, market_state,
                                             a.mode, cfg)
        IN  /\ explained # None =>
                  /\ rpc = "returned" /\ error = None
                  /\ ~bars.raises /\ bars.n_upto > 0
                  /\ through
                  /\ explained[1].symbol = a.symbol
                  /\ explained[1].key_metrics = ExplainedRow
                  /\ explained[1].reason = build_reason(a.mode)
            /\ (CallEnded /\ market_state # "unset" /\ ~bars.raises) =>
                  IF bars.n_upto = 0 THEN error = Some(NoBarsError)
                  ELSE IF ~passes_threshold(ExplainedRow, a.mode)
                  THEN error = Some(ThresholdRejectedError(a.mode))
                  ELSE IF ~through
                  THEN error = Some(RiskRejectedError(a.mode))
                  ELSE explained # None
            /\ CallEnded => (explained # None) = (error = None)
            /\ \A m \in Modes \ {a.mode} : ~Touched(m)
            /\ calls.bars[a.mode] <= 1 /\ calls.gates[a.mode] <= 1
            /\ result = None

\* explain in normal mode raises the risk-filter error for a row that passes
\* the normal threshold and would pass the risk filter in force mode
ExplainRiskRejectedNoFallback ==
    /\ explain_args # None
    /\ explain_args[1].mode = "normal"
    /\ rpc = "raised"
    /\ error = Some(RiskRejectedError("normal"))
    /\ passes_threshold(ExplainedRow, "normal")
    /\ passes_risk_filter(ExplainedRow, market_state, "force", cfg)
    /\ explained = None

----------------------------------------------------------------------------
(* The last-run metadata across the recommend calls of a backtest *)

\* C21: every recommend call overwrites the last-run metadata: once a call
\* has returned or failed, the snapshot get_last_run_meta() holds is the one
\* of that call, with its target date and signal date, never the one an
\* earlier call wrote.
LastRunMetaIsOfTheLastCall ==
    (CallEnded /\ last_run_meta # None) =>
        /\ last_run_meta[1].target_date = target_date
        /\ signal_date # None
        /\ last_run_meta[1].signal_date = signal_date[1]

----------------------------------------------------------------------------
(* The symbol -> name map across explain calls *)

\* C22: the symbol -> name map is built at most once per Recommender: across
\* any sequence of explain calls get_stock_list is invoked for it at most
\* once, even when that one invocation fails; every explain that returns
\* has left a built map behind, and it returns the listed name when the map
\* has the symbol and the raw symbol as name when the lookup failed or the
\* symbol is missing.
NameMapBuiltAtMostOnce ==
    /\ name_lookups <= 1
    /\ (stock_name_map = None) = (name_lookups = 0)
    /\ stock_name_map # None =>
           stock_name_map[1] \in
               {<<>>, [i \in 1..Len(ds_stocks) |->
                          [symbol |-> ds_stocks[i].symbol,
                           name |-> StockName(ds_stocks[i].symbol)]]}
    /\ explained # None =>
           /\ stock_name_map # None
           /\ explained[1].name =
                  IF stock_name_map[1] = <<>>
                  THEN SymbolAsName(explain_args[1].symbol)
                  ELSE StockName(explain_args[1].symbol)

\* the second explain call returns the raw symbol as name without a second
\* stock-list fetch, the first call's fetch having failed for a listed symbol
SecondExplainReusesFailedLookup ==
    /\ explain_calls = 2
    /\ explained # None
    /\ rpc = "returned"
    /\ name_lookups = 1
    /\ ds_stocks # <<>>
    /\ stock_name_map = Some(<<>>)
    /\ explained[1].name = SymbolAsName(explain_args[1].symbol)

----------------------------------------------------------------------------
(* The bear-market block *)

\* the risk filter and the market filter are enabled, block_on_bear is set
\* and the market state of the call is bear
BearBlocked ==
    /\ cfg.risk_enabled
    /\ cfg.market_enabled
    /\ cfg.block_on_bear
    /\ market_state = "bear"

\* C23: with the risk filter and the market filter enabled and block_on_bear
\* set, a bear market lets no symbol become a candidate in normal or relaxed
\* mode: those passes score nothing, a recommendation produced in a bear
\* market has threshold_mode force, and when force is not enabled the run
\* ends with the no-candidate error.
BearMarketOnlyForceRecommends ==
    (BearBlocked /\ InModeLoop) =>
        /\ \A m \in {"normal", "relaxed"} :
             /\ calls.scores[m] = 0
             /\ m \in DOMAIN stats_by_mode => stats_by_mode[m].scored = 0
        /\ enabled_modes[mode_idx] # "force" => out = <<>> /\ candidates = <<>>
        /\ result # None => result[1].threshold_mode = "force"
        /\ (CallEnded /\ "force" \notin Range(enabled_modes)) =>
             /\ rpc = "raised"
             /\ error = Some(NoCandidateError)
             /\ result = None

\* a bear run in which normal and relaxed each turned a symbol away at the
\* market rule although it passed their threshold, and force recommended
BearRunFallsBackToForce ==
    /\ BearBlocked
    /\ rpc = "returned"
    /\ enabled_modes = <<"normal", "relaxed", "force">>
    /\ result[1].threshold_mode = "force"
    /\ stats_by_mode["normal"].market_reject > 0
    /\ stats_by_mode["relaxed"].market_reject > 0

----------------------------------------------------------------------------
(* detect_market_state called on its own, on index series of every length  *)
(* around its windows                                                      *)

\* a function under test is about to be called: no Recommender call, no
\* backtest run, an empty data source
IdleHarness ==
    /\ caller = "test"
    /\ IdleRecommender
    /\ IdleDataSource
    /\ IdleBacktest
    /\ explain_args = None
    /\ explained = None
    /\ explain_calls = 0
    /\ stock_name_map = None
    /\ name_lookups = 0
    /\ bt_range = <<0, 0>>
    /\ ds_calendar = {}
    /\ ds_stocks = <<>>
    /\ ds_bars = <<>>
    /\ ds_closes = <<>>
    /\ ds_index = "bull"
    /\ target_date = 0

IndexShapes == {"rising", "falling", "flat", "peak", "dip", "slump"}

\* the index close of day d in a series of n days
IndexClose(shape, d, n) ==
    CASE shape = "rising" -> 1000 + d
      [] shape = "falling" -> 2000 - d
      [] shape = "flat" -> 1500
      [] shape = "peak" -> IF d <= n - 10 THEN 1000 + d
                           ELSE 1000 + (n - 10) - 3 * (d - (n - 10))
      [] shape = "dip" -> IF d <= n - 10 THEN 2000 - d
                          ELSE 2000 - (n - 10) + 3 * (d - (n - 10))
      [] shape = "slump" -> IF d <= n - 25 THEN 1000 + 5 * d
                            ELSE 1000 + 5 * (n - 25) - 20 * (d - (n - 25))

IndexLengths == {0, 1, 19, 20, 21, 59, 60, 61, 120, 130}

IndexSeries ==
    {[d \in 1..n |-> IndexClose(shape, d, n)] :
        shape \in IndexShapes, n \in IndexLengths}

LookbackDays == {40, 60, DefaultLookbackDays}

InitMarket ==
    /\ IdleHarness
    /\ cfg = DefaultCfg
    /\ fn_ret = None
    /\ \E closes \in IndexSeries, back \in {0, 10}, lookback \in LookbackDays :
           /\ back <= Len(closes)
           /\ fn_args = Some([fn |-> "detect_market_state",
                              index_closes |-> closes,
                              signal_date |-> Len(closes) - back,
                              lookback |-> lookback])

CallDetectMarketState ==
    /\ fn_args # None /\ fn_ret = None
    /\ fn_args[1].fn = "detect_market_state"
    /\ LET a == fn_args[1]
       IN  FnReturn(detect_market_state(a.index_closes, a.signal_date,
                                        a.lookback))

NextMarket == CallDetectMarketState

SpecMarket == InitMarket /\ [][NextMarket]_vars

\* detect_market_state has been called and has returned
MarketCalled == fn_ret # None /\ fn_args[1].fn = "detect_market_state"

\* the closes dated at or before the signal date, the trailing lookback of them
UsedCloses ==
    LET a == fn_args[1]
        upto == {d \in 1..Len(a.index_closes) : d <= a.signal_date}
        kept == {d \in upto : Cardinality({e \in upto : e > d}) < a.lookback}
    IN  [i \in 1..Cardinality(kept) |->
            a.index_closes[i + Cardinality(upto) - Cardinality(kept)]]

\* the state is derived from the used closes alone, by the three-way rule,
\* and is unknown with all-zero fields when there is none
MarketStateIsTheRule ==
    LET r == fn_ret[1]
        used == UsedCloses
    IN  /\ r = detect_market_state(used, Len(used), Len(used) + 1)
        /\ used = <<>> => r = MarketState("unknown", 0, 0, 0, 0)
        /\ used # <<>> =>
             /\ r.close = 60 * used[Len(used)]
             /\ r.label = IF r.close > r.ma20 /\ r.ma20 > r.ma60 /\ r.mom20 > 0
                          THEN "bull"
                          ELSE IF r.close < r.ma20 /\ r.mom20 < 0 THEN "bear"
                          ELSE "neutral"

\* 130 closes dated at or before the signal date, each above the one before
RisingSeriesOf130 ==
    LET a == fn_args[1]
    IN  /\ Len(a.index_closes) = 130
        /\ a.signal_date >= 130
        /\ \A d \in 2..130 : a.index_closes[d] > a.index_closes[d - 1]
        /\ a.index_closes[1] > 0

\* the claim as stated: the rule, and bull for every strictly increasing
\* positive series of 130 points, whatever lookback_days is
MarketStateRuleAndRisingIsBull ==
    MarketCalled =>
        /\ MarketStateIsTheRule
        /\ RisingSeriesOf130 => fn_ret[1].label = "bull"

\* C24: detect_market_state uses only the index closes dated at or before
\* the signal date, the trailing lookback_days of them, and labels the state
\* bull iff close > ma20 > ma60 and mom20 > 0, otherwise bear iff
\* close < ma20 and mom20 < 0, otherwise neutral; without such a close the
\* state is unknown with all-zero fields; with lookback_days of at least 60
\* every strictly increasing positive series of 130 points yields bull.
MarketStateRuleAndRisingIsBullFrom60 ==
    MarketCalled =>
        /\ MarketStateIsTheRule
        /\ (RisingSeriesOf130 /\ fn_args[1].lookback >= 60) =>
               fn_ret[1].label = "bull"

\* a rising series of 130 closes, the default lookback, the label bull
RisingSeriesLabelledBull ==
    /\ MarketCalled
    /\ RisingSeriesOf130
    /\ fn_args[1].lookback = DefaultLookbackDays
    /\ fn_ret[1].label = "bull"
    /\ fn_ret[1].close > fn_ret[1].ma20
    /\ fn_ret[1].ma20 > fn_ret[1].ma60

----------------------------------------------------------------------------
(* rsi called on its own, on close series around its 14-bar window *)

RsiLengths == (RsiWindow - 1)..(RsiWindow + 2)

\* closes in cents: rising, flat or falling by a steady step, and the same
\* with one move of the opposite direction at day k
CloseSeries ==
    {[d \in 1..n |-> 2000 + step * d + (IF k > 0 /\ d >= k THEN turn ELSE 0)] :
        n \in RsiLengths, step \in {-10, 0, 10}, k \in {0, 2, 3, 9},
        turn \in {-25, 25}}

InitIndicators ==
    /\ IdleHarness
    /\ cfg = DefaultCfg
    /\ fn_ret = None
    /\ fn_args \in {Some([fn |-> "rsi", series |-> closes, window |-> RsiWindow]) :
                       closes \in CloseSeries}

CallRsi ==
    /\ fn_args # None /\ fn_ret = None
    /\ fn_args[1].fn = "rsi"
    /\ FnReturn(rsi(fn_args[1].series, fn_args[1].window))

NextIndicators == CallRsi

SpecIndicators == InitIndicators /\ [][NextIndicators]_vars

\* rsi has been called and has returned
RsiCalled == fn_ret # None /\ fn_args[1].fn = "rsi"

\* no close of the trailing window is below the close of the day before
NoDownDayInWindow ==
    LET series == fn_args[1].series
        n == Len(series)
    IN  \A i \in (n - fn_args[1].window + 1)..n :
            i >= 2 => series[i] >= series[i - 1]

\* C25: when 14 bars of history exist and the trailing 14-bar window has no
\* down day, so that the average loss is zero, rsi14 is defined and equals
\* 100.
RsiIsHundredWithoutLosses ==
    (RsiCalled /\ Len(fn_args[1].series) >= fn_args[1].window
              /\ NoDownDayInWindow) =>
        /\ ~IsNaN(fn_ret[1])
        /\ fn_ret[1] = 100

----------------------------------------------------------------------------
(* Unknown mode names in the configuration *)

\* strategy.enabled_modes is a list that holds a name which is none of
\* normal, relaxed and force after trimming and lower-casing
NamesUnknownMode ==
    /\ cfg.modes.is_list
    /\ \E i \in 1..Len(cfg.modes.items) :
           NormaliseMode(cfg.modes.items[i]) \notin Modes

\* C26: a configuration whose strategy.enabled_modes names an unknown mode
\* is rejected with an error: no recommend call resolves its enabled modes
\* with that name dropped, ranks a symbol or returns a recommendation.
UnknownModeNameIsFatal ==
    NamesUnknownMode =>
        /\ enabled_modes = <<>>
        /\ \A m \in Modes : ~Touched(m)
        /\ result = None

----------------------------------------------------------------------------
(* The bounded error examples of the backtest and of a ranking pass *)

\* the two example lists of a pass are as long as their counters, up to the
\* configured cap
ExamplesCapped(st) ==
    /\ Len(st.kline_failed_examples) =
           Min(st.kline_failed, cfg.failed_symbol_examples)
    /\ Len(st.no_bars_symbols) = Min(st.no_bars, cfg.failed_symbol_examples)

\* the counters of a finished pass count every symbol of the universe whose
\* bar fetch raised or returned nothing
FailuresAllCounted(st) ==
    /\ st.kline_failed =
           Cardinality({i \in 1..Len(universe) :
                           ds_bars[universe[i].symbol].raises})
    /\ st.no_bars =
           Cardinality({i \in 1..Len(universe) :
                           /\ ~ds_bars[universe[i].symbol].raises
                           /\ ds_bars[universe[i].symbol].n_upto = 0})

\* C27: the backtest keeps min(failed days, max_error_examples) error
\* examples while every failed day is counted, so that between two days the
\* error counts add up to the attempted dates without a record and in the
\* summary to skipped_days, and no example is of a recorded day; in a
\* ranking pass kline_failed_examples and no_bars_symbols never exceed the
\* configured cap while their counters count every failing symbol.
ErrorExamplesBoundedCountsComplete ==
    /\ Len(error_examples) =
           Min(CounterTotal(error_counts), cfg.max_error_examples)
    /\ ((bpc = "loop" /\ rpc = "idle") \/ bpc = "done") =>
           CounterTotal(error_counts) = Len(attempted) - Len(records)
    /\ \A i \in 1..Len(error_examples) :
           /\ \E j \in 1..Len(attempted) :
                  attempted[j] = error_examples[i].trade_date
           /\ \A j \in 1..Len(records) :
                  records[j].trade_date # error_examples[i].trade_date
    /\ summary # None =>
           /\ CounterTotal(summary[1].error_counts) = summary[1].skipped_days
           /\ summary[1].error_examples = error_examples
           /\ Len(summary[1].error_examples) <= cfg.max_error_examples
    /\ ExamplesCapped(stats)
    /\ \A m \in DOMAIN stats_by_mode :
           ExamplesCapped(stats_by_mode[m]) /\ FailuresAllCounted(stats_by_mode[m])

\* a run whose failed days outnumber the stored examples, and whose last
\* ranking pass counted two failing symbols and kept one example
MoreFailuresThanExamples ==
    /\ bpc = "done"
    /\ summary # None
    /\ summary[1].skipped_days >= 2
    /\ Len(summary[1].error_examples) = 1
    /\ cfg.max_error_examples = 1
    /\ "normal" \in DOMAIN stats_by_mode
    /\ stats_by_mode["normal"].kline_failed = 2
    /\ Len(stats_by_mode["normal"].kline_failed_examples) = 1

----------------------------------------------------------------------------
(* The enabled modes of a call *)

\* the position of the first entry of strategy.enabled_modes that is mode m
\* after trimming and lower-casing, 0 when there is none
FirstNamed(m) ==
    LET at == {i \in 1..Len(cfg.modes.items) :
                  NormaliseMode(cfg.modes.items[i]) = m}
    IN  IF at = {} THEN 0 ELSE CHOOSE i \in at : \A j \in at : i <= j

\* C28: _resolve_enabled_modes returns a non-empty list without duplicates
\* whose members are among normal, relaxed and force, in the order of their
\* first occurrence in strategy.enabled_modes after trimming and
\* lower-casing; when the configured value is not a list or names no allowed
\* mode, it returns normal, relaxed, force.
EnabledModesCleanInConfiguredOrder ==
    InModeLoop =>
        LET named == {m \in Modes : FirstNamed(m) > 0}
        IN  /\ enabled_modes # <<>>
            /\ Range(enabled_modes) \subseteq Modes
            /\ \A i, j \in 1..Len(enabled_modes) :
                   i # j => enabled_modes[i] # enabled_modes[j]
            /\ IF ~cfg.modes.is_list \/ named = {}
               THEN enabled_modes = <<"normal", "relaxed", "force">>
               ELSE /\ Range(enabled_modes) = named
                    /\ \A i, j \in 1..Len(enabled_modes) :
                           i < j => FirstNamed(enabled_modes[i]) <
                                        FirstNamed(enabled_modes[j])

\* a list with an untrimmed, an unknown, a repeated and an upper-case name
\* resolved to normal, force, and the call returned
MessyModeListResolved ==
    /\ rpc = "returned"
    /\ cfg.modes.is_list
    /\ Len(cfg.modes.items) = 4
    /\ FirstNamed("normal") = 1
    /\ FirstNamed("force") = 4
    /\ enabled_modes = <<"normal", "force">>

----------------------------------------------------------------------------
(* An index-close fetch that fails or returns nothing *)

\* the market filter is enabled and the index-close fetch raises or returns
\* no close
IndexUnavailable == cfg.market_enabled /\ ds_index \in {"raise", "empty"}

\* the symbols of the universe that reached the risk filter in a pass of
\* mode m and that it rejects when market rules out of `market` apply
RiskRejected(m, market) ==
    {i \in 1..Len(universe) :
        LET bars == ds_bars[universe[i].symbol]
            latest == LatestRow(bars.n_upto, bars.feat)
        IN  /\ ~bars.raises
            /\ bars.n_upto >= min_bars(m)
            /\ passes_threshold(latest, m)
            /\ ~passes_risk_filter(latest, market, m, cfg)}

\* whenever the index closes are unavailable the market state of the call is
\* unknown and a pass rejects at the risk filter exactly the symbols it
\* would reject in a bull market, none for the market
UnknownMarketRejectsNothing ==
    IndexUnavailable =>
        /\ market_state \in {"unset", "unknown"}
        /\ calls.index > 0 => market_state = "unknown"
        /\ stats.market_reject = 0
        /\ \A m \in DOMAIN stats_by_mode :
               /\ stats_by_mode[m].market_reject = 0
               /\ m # "force" =>
                      stats_by_mode[m].risk_reject =
                          Cardinality(RiskRejected(m, "bull"))

\* the step that fetches the index closes ends without an error and leaves
\* the call running
IndexFetchStep ==
    (IndexUnavailable /\ calls'.index > calls.index) =>
        /\ market_state' = "unknown"
        /\ error' = None
        /\ rpc' \notin {"raised", "returned"}

\* C29: a failure or an empty result of the index-close fetch never fails
\* recommend or explain: the market state of the call becomes unknown, and
\* under unknown neither the bear block nor the weak-market rule rejects a
\* symbol.
IndexFailureLeavesMarketUnknown ==
    []UnknownMarketRejectsNothing /\ [][IndexFetchStep]_vars

\* the index fetch raised and recommend returned, in normal mode, a symbol
\* that the weak-market rule rejects in a neutral market
WeakRowRecommendedWithoutIndex ==
    /\ cfg.risk_enabled /\ cfg.market_enabled /\ cfg.weak_enabled
    /\ ds_index = "raise"
    /\ rpc = "returned"
    /\ market_state = "unknown"
    /\ result[1].threshold_mode = "normal"
    /\ RiskRejected("normal", "neutral") # {}
    /\ RiskRejected("normal", "unknown") = {}

----------------------------------------------------------------------------
(* _summary called on its own, on records with every mix of 1-day returns *)

\* 1-day net returns in 1/10000: undefined, a total loss, a loss, a flat
\* day, two gains
NetReturns == {None, Some(-10000), Some(-2000), Some(0), Some(1000), Some(5000)}

\* the record of day i with the given 1-day net return
SummaryRecord(i, net) ==
    [trade_date |-> i, symbol |-> PlainStocks[1].symbol,
     threshold_mode |-> "normal",
     ret_1d_gross |-> net, ret_5d_gross |-> None,
     ret_1d_net |-> net, ret_5d_net |-> None]

RecordLists ==
    UNION {{[i \in 1..n |-> SummaryRecord(i, nets[i])] :
               nets \in [1..n -> NetReturns]} : n \in 0..MaxSummaryRecords}

InitSummary ==
    /\ IdleHarness
    /\ cfg = DefaultCfg
    /\ fn_ret = None
    /\ fn_args \in {Some([fn |-> "_summary", records |-> recs]) :
                       recs \in RecordLists}

CallSummary ==
    /\ fn_args # None /\ fn_ret = None
    /\ fn_args[1].fn = "_summary"
    /\ LET recs == fn_args[1].records
       IN  FnReturn(_summary(recs, Len(recs), <<>>, <<>>, <<>>))

NextSummary == CallSummary

SpecSummary == InitSummary /\ [][NextSummary]_vars

\* _summary has been called and has returned
SummaryCalled == fn_ret # None /\ fn_args[1].fn = "_summary"

\* the values obtained by compounding the defined 1-day net returns of the
\* records in their order, in 1/10000 of the starting equity
CompoundedReturns ==
    LET recs == fn_args[1].records
        defined == SelectSeq([i \in 1..Len(recs) |-> recs[i].ret_1d_net],
                             LAMBDA r : r # None)
        E[i \in 0..Len(defined)] ==
            IF i = 0 THEN 10000
            ELSE (E[i - 1] * (10000 + defined[i][1])) \div 10000
    IN  [i \in 1..Len(defined) |-> E[i]]

\* the largest relative decline from a point of the curve to a later one,
\* in 1/10000; 0 when no later point is lower
LargestDecline(curve) ==
    LET pairs == {p \in (1..Len(curve)) \X (1..Len(curve)) :
                     p[1] < p[2] /\ curve[p[1]] > 0}
        later == {((curve[p[1]] - curve[p[2]]) * 10000) \div curve[p[1]] :
                     p \in pairs}
        S == later \cup {0}
    IN  CHOOSE x \in S : \A y \in S : y <= x

\* the claim as stated: the curve is the compounded values alone
DrawdownOfCompoundedValues ==
    SummaryCalled =>
        /\ fn_ret[1].max_drawdown_proxy = LargestDecline(CompoundedReturns)
        /\ (\A i, j \in 1..Len(CompoundedReturns) :
                i < j => CompoundedReturns[j] >= CompoundedReturns[i]) =>
               fn_ret[1].max_drawdown_proxy = 0

\* C30: the summary's max_drawdown_proxy is the largest relative decline
\* (peak - value) / peak from a peak of the equity curve to a later value of
\* that curve, where the curve starts at the initial equity 1.0 and goes on
\* with the values obtained by compounding the defined 1-day net returns of
\* the records in order; it is 0 when the curve never falls below the
\* initial equity or an earlier point of the curve.
DrawdownFromInitialEquity ==
    SummaryCalled =>
        LET curve == <<10000>> \o CompoundedReturns
        IN  /\ fn_ret[1].max_drawdown_proxy = LargestDecline(curve)
            /\ (\A i, j \in 1..Len(curve) : i < j => curve[j] >= curve[i]) =>
                   fn_ret[1].max_drawdown_proxy = 0

\* a first return that is a loss followed by a gain: the compounded values
\* only rise, the drawdown is the first loss
FirstLossIsADrawdown ==
    /\ SummaryCalled
    /\ Len(CompoundedReturns) = 2
    /\ CompoundedReturns[1] < 10000
    /\ CompoundedReturns[2] > CompoundedReturns[1]
    /\ fn_ret[1].max_drawdown_proxy = 10000 - CompoundedReturns[1]

\* ------------------------------------------------------------------------
\* reporting.append_recommendation_csv, run on its own.  The table file is
\* [exists, readable, rows]: readable is whether pd.read_csv parses it (a
\* ragged line, a foreign encoding or an empty file make it raise), rows the
\* data rows it holds.

MaxReportRows == 2

\* the columns _build_row takes from the result (run_time apart)
_build_row(rec) ==
    [trade_date |-> rec.trade_date, symbol |-> rec.symbol,
     threshold_mode |-> rec.threshold_mode, score_total |-> rec.score_total]

CsvFile(exists, readable, rows) ==
    [exists |-> exists, readable |-> readable, rows |-> rows]

append_recommendation_csv(rec, file) ==
    LET row == _build_row(rec)
    IN  IF file.exists /\ file.readable
        THEN CsvFile(TRUE, TRUE, Append(file.rows, row))
        ELSE CsvFile(TRUE, TRUE, <<row>>)

ReportResults ==
    {[trade_date |-> CliDay, symbol |-> PlainStocks[i].symbol,
      score_total |-> 5000, score_breakdown |-> <<>>, key_metrics |-> <<>>,
      reason |-> "", threshold_mode |-> m] :
        i \in 1..2, m \in {"normal", "force"}}

ReportFiles ==
    {CsvFile(FALSE, FALSE, <<>>)} \cup
    {CsvFile(TRUE, readable, rows) :
        readable \in BOOLEAN,
        rows \in UNION {[1..n -> {_build_row(r) : r \in ReportResults}] :
                           n \in 0..MaxReportRows}}

InitReport ==
    /\ IdleHarness
    /\ cfg = DefaultCfg
    /\ fn_ret = None
    /\ fn_args \in {Some([fn |-> "append_recommendation_csv",
                          rec |-> rec, file |-> file]) :
                       rec \in ReportResults, file \in ReportFiles}

CallAppendCsv ==
    /\ fn_args # None /\ fn_ret = None
    /\ fn_args[1].fn = "append_recommendation_csv"
    /\ FnReturn(append_recommendation_csv(fn_args[1].rec, fn_args[1].file))

NextReport == CallAppendCsv

SpecReport == InitReport /\ [][NextReport]_vars

AppendCsvCalled ==
    /\ fn_args # None /\ fn_ret # None
    /\ fn_args[1].fn = "append_recommendation_csv"

\* C31: after append_recommendation_csv the table holds every row it held
\* before, in the same order, followed by exactly one new row for the given
\* recommendation, whatever the state of the existing file.
AppendCsvOnlyAppends ==
    AppendCsvCalled =>
        fn_ret[1].rows = Append(fn_args[1].file.rows,
                                _build_row(fn_args[1].rec))

\* ------------------------------------------------------------------------
\* the symbol is taken as a candidate by a pass of _rank_candidates in the
\* given mode, for the bars the data source holds, the market state and the
\* configuration of the run
Accepted(stock, mode) ==
    RankOne(stock, ds_bars[stock.symbol], mode, market_state, cfg,
            ZeroStats(0)).cand # None

\* C32: the tiers are nested: for the same universe, signal date, market
\* state, configuration and bars, a symbol accepted in normal mode is accepted
\* in relaxed mode, and a symbol accepted in relaxed mode is accepted in
\* force mode.
TiersNested ==
    InModeLoop =>
        \A i \in 1..Len(universe) :
            /\ Accepted(universe[i], "normal") =>
                   Accepted(universe[i], "relaxed")
            /\ Accepted(universe[i], "relaxed") =>
                   Accepted(universe[i], "force")

\* a run that fell back to relaxed and returned a symbol normal had refused
FallbackEnlargedCandidates ==
    /\ rpc = "returned" /\ result # None
    /\ result[1].threshold_mode = "relaxed"
    /\ \E i \in 1..Len(universe) :
           /\ universe[i].symbol = result[1].symbol
           /\ ~Accepted(universe[i], "normal")
           /\ Accepted(universe[i], "relaxed")
           /\ Accepted(universe[i], "force")

\* ------------------------------------------------------------------------
\* the bar answer without the bars dated after the signal date
BarsUpTo(bars) == [bars EXCEPT !.n_after = 0]

\* two probe answers that can hold the same bars dated at or before sig: what
\* either holds after sig is free
ProbesAgreeUpTo(sig, p, q) ==
    LET upto(a) == IF ~a.has_bars THEN None
                   ELSE IF a.last_date <= sig THEN Some(a.last_date)
                   ELSE None
        later(a) == a.has_bars /\ a.last_date > sig
    IN  /\ p.raises = q.raises
        /\ (~later(p) /\ ~later(q)) => upto(p) = upto(q)

\* the two probe answers agree on holding a bar dated at or after sig
ProbesEquallyFresh(sig, p, q) ==
    (p.has_bars /\ p.last_date >= sig) = (q.has_bars /\ q.last_date >= sig)

SignalBeforeTarget == signal_date # None => signal_date[1] < target_date

\* the symbol under the scan is ranked as if the data source had returned no
\* bar dated after the signal date
RankingIgnoresLaterBars ==
    (rpc = "rank" /\ sym_idx <= Len(universe)) =>
        LET stock == universe[sym_idx]
            bars == ds_bars[stock.symbol]
            mode == enabled_modes[mode_idx]
        IN  /\ _fetch_recent_bars(bars) <= bars.n_upto
            /\ RankOne(stock, bars, mode, market_state, cfg, stats)
                   = RankOne(stock, BarsUpTo(bars), mode, market_state, cfg,
                             stats)

\* index closes dated after the signal date leave the market state as it is
\* without them
MarketIgnoresLaterCloses ==
    rpc = "market" =>
        \A closes \in IndexSeries :
            Len(closes) >= 10 =>
                LET sig == Len(closes) - 10
                IN  detect_market_state(closes, sig, DefaultLookbackDays)
                      = detect_market_state(SubSeq(closes, 1, sig), sig,
                                            DefaultLookbackDays)

\* the claim as stated: two data sources that agree on everything dated at or
\* before the signal date give the same outcome
NoLookAhead ==
    /\ SignalBeforeTarget
    /\ RankingIgnoresLaterBars
    /\ MarketIgnoresLaterCloses
    /\ rpc = "fresh" =>
           \A p, q \in ProbeAnswers(signal_date[1]) :
               ProbesAgreeUpTo(signal_date[1], p, q) =>
                   _check_signal_data_freshness(cfg, signal_date[1], p)
                     = _check_signal_data_freshness(cfg, signal_date[1], q)

\* C33: recommend(target) has no look-ahead in what it ranks on: the signal
\* date is strictly before target, the bars fed to the indicators and the
\* index closes used for the market state are dated at or before the signal
\* date even when the data source returns later-dated data, and two data
\* sources that agree on everything dated at or before the signal date, and
\* on whether the freshness probe's answer holds a bar dated at or after the
\* signal date, give the same outcome.
NoLookAheadBesideTheProbe ==
    /\ SignalBeforeTarget
    /\ RankingIgnoresLaterBars
    /\ MarketIgnoresLaterCloses
    /\ rpc = "fresh" =>
           \A p, q \in ProbeAnswers(signal_date[1]) :
               (/\ ProbesAgreeUpTo(signal_date[1], p, q)
                /\ ProbesEquallyFresh(signal_date[1], p, q)) =>
                   _check_signal_data_freshness(cfg, signal_date[1], p)
                     = _check_signal_data_freshness(cfg, signal_date[1], q)

\* a recommendation for a symbol whose bar answer held a bar dated after the
\* signal date, ranked on the bars up to the signal date
LaterBarsReturnedAndDropped ==
    /\ rpc = "returned" /\ result # None
    /\ signal_date[1] < target_date
    /\ LET bars == ds_bars[result[1].symbol]
       IN  /\ bars.n_after > 0
           /\ result[1].key_metrics = LatestRow(bars.n_upto, bars.feat)

\* ------------------------------------------------------------------------
\* recommend(target) followed by explain(S, target, M) for the symbol and the
\* mode it returned, against the same data source

\* explain(result.symbol, target_date, result.threshold_mode) once recommend
\* has returned: the locals of the call start afresh
ExplainRecommended ==
    /\ caller = "cli"
    /\ rpc = "returned"
    /\ result # None
    /\ explain_calls = 0
    /\ explain_calls' = 1
    /\ explain_args' = Some([symbol |-> result[1].symbol,
                             mode |-> result[1].threshold_mode])
    /\ explained' = None
    /\ error' = None
    /\ dates' = <<>>
    /\ signal_date' = None
    /\ market_state' = "unset"
    /\ calls' = ZeroCalls
    /\ rpc' = "explain_resolve"
    /\ UNCHANGED <<target_date, probe_bars, fresh_ok, universe, enabled_modes,
                   mode_idx, sym_idx, out, stats, stats_by_mode, candidates,
                   result, last_run_meta>>
    /\ UNCHANGED <<env_vars, caller, bt_vars, stock_name_map, name_lookups,
                   fn_args, fn_ret>>

NextRecommendExplain ==
    \/ CliRecommendCall
    \/ RecommendStep
    \/ ExplainRecommended
    \/ ExplainStep

SpecRecommendExplain == Init /\ [][NextRecommendExplain]_vars

\* the explain call for the recommended symbol has ended, and the trade
\* calendar answered it as it answered recommend
RecommendedExplained ==
    /\ explain_calls = 1 /\ result # None
    /\ rpc \in {"returned", "raised"}
    /\ error # Some(DataSourceError)

ExplainedSameScore ==
    /\ rpc = "returned"
    /\ explained # None
    /\ explained[1].symbol = result[1].symbol
    /\ explained[1].score_total = result[1].score_total

\* the claim as stated: explain succeeds with the score of the
\* recommendation in every mode
ExplainAgreesWithRanking == RecommendedExplained => ExplainedSameScore

\* C34: explain and the ranking engine apply the same gates in normal and
\* relaxed mode: when recommend(target) returns S with threshold_mode M,
\* explain(S, target, M) against the same data succeeds with the same
\* score_total if M is normal or relaxed; if M is force it does so exactly
\* when S's latest row passes passes_threshold for force, which the ranking
\* engine does not apply, and raises the threshold error otherwise.
ExplainAgreesWithRankingBelowForce ==
    RecommendedExplained =>
        IF \/ result[1].threshold_mode # "force"
           \/ passes_threshold(ExplainedRow, "force")
        THEN ExplainedSameScore
        ELSE /\ rpc = "raised"
             /\ explained = None
             /\ error = Some(ThresholdRejectedError("force"))

\* a relaxed-mode recommendation, explained with the same score
RelaxedRecommendationExplained ==
    /\ RecommendedExplained
    /\ result[1].threshold_mode = "relaxed"
    /\ ExplainedSameScore

\* ------------------------------------------------------------------------
\* the counters of one pass add up
StatsAddUp(st) ==
    /\ st.scanned = st.kline_failed + st.no_bars + st.kline_success
    /\ st.kline_success = st.insufficient_bars + st.df_empty
                          + st.threshold_reject + st.risk_reject
                          + st.market_reject + st.scored

\* the mode of the pass that returned last: the passes return in the order
\* of enabled_modes, one per mode
LastPassMode == enabled_modes[Cardinality(DOMAIN stats_by_mode)]

\* C35: the statistics a ranking pass returns account for every scanned
\* symbol exactly once: scanned = kline_failed + no_bars + kline_success,
\* kline_success = insufficient_bars + df_empty + threshold_reject
\* + risk_reject + market_reject + scored, and scored is the number of
\* candidates the pass returned.
PassStatsAccountForEverySymbol ==
    /\ \A m \in DOMAIN stats_by_mode :
           /\ stats_by_mode[m].scanned = Len(universe)
           /\ StatsAddUp(stats_by_mode[m])
    /\ DOMAIN stats_by_mode # {} =>
           stats_by_mode[LastPassMode].scored = Len(candidates)

\* a pass over two symbols that rejected one at the threshold and scored the
\* other
PassRejectedOneScoredOne ==
    \E m \in DOMAIN stats_by_mode :
        /\ stats_by_mode[m].scanned = 2
        /\ stats_by_mode[m].threshold_reject = 1
        /\ stats_by_mode[m].scored = 1
        /\ Len(candidates) = 1

\* ------------------------------------------------------------------------
\* the scored count the snapshot holds for a mode
MetaScored(meta, m) ==
    CASE m = "normal" -> meta.normal_scored
      [] m = "relaxed" -> meta.relaxed_scored
      [] m = "force" -> meta.force_scored

\* the position of a mode in the enabled list, 0 when it is not enabled
EnabledPos(modes, m) ==
    IF m \in Range(modes)
    THEN CHOOSE i \in 1..Len(modes) : modes[i] = m
    ELSE 0

\* C36: after every successful recommend call the last-run metadata agrees
\* with the returned result: target_date is the call's, final_mode is the
\* result's threshold_mode, the scored count of final_mode is at least 1,
\* that of every enabled mode ordered before it is 0, and that of a mode
\* that is not enabled is None; the backtest reads this snapshot for the date.
LastRunMetaMatchesResult ==
    (rpc = "returned" /\ result # None) =>
        /\ last_run_meta # None
        /\ LET meta == last_run_meta[1]
               final == EnabledPos(meta.enabled_modes, meta.final_mode)
           IN  /\ meta.target_date = target_date
               /\ meta.target_date = result[1].trade_date
               /\ meta.final_mode = result[1].threshold_mode
               /\ meta.enabled_modes = enabled_modes
               /\ final >= 1
               /\ MetaScored(meta, meta.final_mode) # None
               /\ MetaScored(meta, meta.final_mode)[1] >= 1
               /\ \A m \in {"normal", "relaxed", "force"} :
                      LET pos == EnabledPos(meta.enabled_modes, m)
                      IN  /\ pos = 0 => MetaScored(meta, m) = None
                          /\ (pos >= 1 /\ pos < final) =>
                                 MetaScored(meta, m) = Some(0)
        /\ bpc = "loop" => target_date = trade_dates[bt_idx]

\* a later day of a backtest recommended in force mode after normal and
\* relaxed scored nothing
LaterDayForceSnapshot ==
    /\ bpc = "loop" /\ rpc = "returned" /\ result # None
    /\ bt_idx >= 2
    /\ last_run_meta # None
    /\ last_run_meta[1].final_mode = "force"
    /\ last_run_meta[1].normal_scored = Some(0)
    /\ last_run_meta[1].relaxed_scored = Some(0)
    /\ last_run_meta[1].force_scored # None
    /\ last_run_meta[1].force_scored[1] >= 1

\* ------------------------------------------------------------------------
\* what recommend(target) comes to on a Recommender that has made no call
\* before, as a function of the configuration, the target date and the data
\* source, when the probe and the stock list answer: the result or the error

\* one pass over the universe: the candidates in scan order, or the error
\* that ended the pass
FreshPass(uni, mode, market, c) ==
    LET F[i \in 0..Len(uni)] ==
            IF i = 0 THEN [out |-> <<>>, raised |-> None]
            ELSE IF F[i - 1].raised # None THEN F[i - 1]
            ELSE LET r == RankOne(uni[i], ds_bars[uni[i].symbol], mode, market,
                                  c, ZeroStats(0))
                 IN  [out |-> F[i - 1].out \o r.cand, raised |-> r.raised]
    IN  F[Len(uni)]

FreshRecommend(c, target) ==
    LET got == get_trade_dates(target - SignalLookbackDays, target)
        sig == resolve_signal_date(got, target)
        market == _resolve_market_state(c, ds_index)
        filtered == filter_universe(ds_stocks, c)
        uni == IF c.max_symbols > 0 THEN Take(filtered, c.max_symbols)
               ELSE filtered
        modes == _resolve_enabled_modes(c.modes)
        G[k \in 0..Len(modes)] ==
            IF k = 0 THEN [done |-> FALSE, result |-> None, error |-> None]
            ELSE IF G[k - 1].done THEN G[k - 1]
            ELSE LET pass == FreshPass(uni, modes[k], market, c)
                     sorted == SortByScoreDesc(pass.out)
                 IN  IF pass.raised # None
                     THEN [done |-> TRUE, result |-> None,
                           error |-> pass.raised]
                     ELSE IF sorted # <<>>
                     THEN [done |-> TRUE,
                           result |-> Some(RecommendationResult(
                                               target, sorted[1], modes[k])),
                           error |-> None]
                     ELSE IF k = Len(modes)
                     THEN [done |-> TRUE, result |-> None,
                           error |-> Some(NoCandidateError)]
                     ELSE G[k - 1]
    IN  IF sig = None
        THEN [done |-> TRUE, result |-> None,
              error |-> Some(NoTradeDatesError)]
        ELSE G[Len(modes)]

\* the call ended otherwise than by a data source call of its own raising
\* or the probe finding stale data
AnsweredCallEnded ==
    /\ CallEnded
    /\ error \notin {Some(DataSourceError), Some(StaleDataError)}

MaxCacheDay == 3

MaxFetches == 2

CacheDays == 1..MaxCacheDay

CacheRow(d, k, i) == [trade_date |-> d, fetched |-> k, pos |-> i]

\* the members of rows at the indices of keep, in their order
RowsAt(rows, keep) ==
    [k \in 1..Cardinality(keep) |->
        rows[CHOOSE i \in keep : Cardinality({j \in keep : j <= i}) = k]]

drop_duplicates_keep_first(rows) ==
    RowsAt(rows, {i \in 1..Len(rows) :
                     \A j \in 1..(i - 1) :
                         rows[j].trade_date # rows[i].trade_date})

\* DataFrame.drop_duplicates(subset=["trade_date"], keep="last")
drop_duplicates(rows) ==
    RowsAt(rows, {i \in 1..Len(rows) :
                     \A j \in (i + 1)..Len(rows) :
                         rows[j].trade_date # rows[i].trade_date})

\* DataFrame.sort_values("trade_date"), list.sort(key=trade_date): rows of
\* equal date keep their order
sort_values(rows) ==
    LET rank(i) == Cardinality({j \in 1..Len(rows) :
                        \/ rows[j].trade_date < rows[i].trade_date
                        \/ /\ rows[j].trade_date = rows[i].trade_date
                           /\ j <= i})
    IN  [k \in 1..Len(rows) |-> rows[CHOOSE i \in 1..Len(rows) : rank(i) = k]]

\* what _fetch_remote_bars gives: it raises, or returns the bars of a
\* non-empty answer sorted by date (_rows_to_bars_em, _rows_to_bars_tx); the
\* remote side is free in the dates it returns
RemoteAnswers ==
    {[raises |-> TRUE, dates |-> <<>>]} \cup
    {[raises |-> FALSE, dates |-> ds] :
        ds \in {s \in UNION {[1..n -> CacheDays] : n \in 1..2} :
                   \A i \in 1..(Len(s) - 1) : s[i] <= s[i + 1]}}

\* the bars of the k-th remote fetch
FetchedBars(answer, k) ==
    [i \in 1..Len(answer.dates) |-> CacheRow(answer.dates[i], k, i)]

\* pd.concat of the non-empty frames, drop_duplicates(keep="last"),
\* sort_values: the frame _save_bars_df writes
MergedFrame(old, new) == sort_values(drop_duplicates(old \o new))

\* _merge_save_bars_cache(symbol, bars): the cache file afterwards
_merge_save_bars_cache(cache, bars) ==
    IF cache # None THEN Some(MergedFrame(cache[1], bars))
    ELSE Some(MergedFrame(<<>>, bars))

\* _incremental_fill_cache: the left and the right fetch as needed, each
\* failure swallowed; merged is None when nothing was fetched, else the frame
\* it saved.  a1 answers the first fetch made, a2 the second.
_incremental_fill_cache(df, start, end, cached_min, cached_max, seq, a1, a2) ==
    LET need_left == start < cached_min
        need_right == end > cached_max
        left == IF need_left /\ ~a1.raises THEN FetchedBars(a1, seq + 1)
                ELSE <<>>
        ra == IF need_left THEN a2 ELSE a1
        rk == IF need_left THEN seq + 2 ELSE seq + 1
        right == IF need_right /\ ~ra.raises THEN FetchedBars(ra, rk)
                 ELSE <<>>
        fetched == left \o right
    IN  [merged |-> IF fetched = <<>> THEN None
                    ELSE Some(MergedFrame(df, fetched)),
         fetched |-> fetched,
         seq |-> seq + (IF need_left THEN 1 ELSE 0)
                     + (IF need_right THEN 1 ELSE 0)]

\* _get_bars_from_cache: None without a usable file, else the cached rows
\* within [start, end] after the incremental fill
_get_bars_from_cache(cache, start, end, seq, a1, a2) ==
    IF cache = None \/ cache = Some(<<>>)
    THEN [cached |-> None, cache |-> cache, seq |-> seq, fetched |-> <<>>]
    ELSE
        LET df == cache[1]
            held == {df[i].trade_date : i \in 1..Len(df)}
            cached_min == CHOOSE d \in held : \A e \in held : d <= e
            cached_max == CHOOSE d \in held : \A e \in held : d >= e
            need_remote == start < cached_min \/ end > cached_max
            fill == _incremental_fill_cache(df, start, end, cached_min,
                                            cached_max, seq, a1, a2)
            filled == need_remote /\ fill.merged # None
            frame == IF filled THEN fill.merged[1] ELSE df
            sub == SelectSeq(frame, LAMBDA r : start <= r.trade_date
                                               /\ r.trade_date <= end)
        IN  [cached |-> Some(sort_values(sub)),
             cache |-> IF filled THEN fill.merged ELSE cache,
             seq |-> IF need_remote THEN fill.seq ELSE seq,
             fetched |-> IF need_remote THEN fill.fetched ELSE <<>>]

\* get_daily_bars(symbol, start_date, end_date) with cache_enabled and
\* prefer_tx_fallback: the bars returned or the error, the cache file and
\* the fetch count afterwards, the rows fetched on the way
get_daily_bars(cache, start, end, seq, a1, a2) ==
    LET hit == _get_bars_from_cache(cache, start, end, seq, a1, a2)
        bars == FetchedBars(a1, seq + 1)
    IN  IF hit.cached # None
        THEN [bars |-> hit.cached[1], raised |-> FALSE, from_cache |-> TRUE,
              cache |-> hit.cache, seq |-> hit.seq, fetched |-> hit.fetched]
        ELSE IF a1.raises
        THEN [bars |-> <<>>, raised |-> TRUE, from_cache |-> FALSE,
              cache |-> cache, seq |-> seq + 1, fetched |-> <<>>]
        ELSE [bars |-> bars, raised |-> FALSE, from_cache |-> FALSE,
              cache |-> _merge_save_bars_cache(cache, bars), seq |-> seq + 1,
              fetched |-> bars]

\* the remote fetches a call makes: one without a usable cache file, else
\* one for each side on which the range reaches beyond the cached dates
FetchesMade(cache, start, end) ==
    IF cache = None \/ cache = Some(<<>>) THEN 1
    ELSE LET held == {cache[1][i].trade_date : i \in 1..Len(cache[1])}
         IN  (IF \E d \in held : \A e \in held : d <= e /\ start < d
              THEN 1 ELSE 0)
             + (IF \E d \in held : \A e \in held : d >= e /\ end > d
                THEN 1 ELSE 0)

\* the answers of the remote side to n fetches
AnswersTo(n, k) ==
    IF k <= n THEN RemoteAnswers ELSE {[raises |-> TRUE, dates |-> <<>>]}

InitBarsCache ==
    /\ IdleHarness
    /\ cfg = DefaultCfg
    /\ fn_args = None
    /\ fn_ret = None

\* one get_daily_bars call, for any range and any answers of the remote side
GetDailyBars ==
    /\ caller = "test"
    /\ fetch_seq < MaxFetches
    /\ \E start \in CacheDays, end \in CacheDays :
       \E a1 \in AnswersTo(FetchesMade(bars_cache, start, end), 1),
          a2 \in AnswersTo(FetchesMade(bars_cache, start, end), 2) :
           /\ start <= end
           /\ LET r == get_daily_bars(bars_cache, start, end, fetch_seq, a1, a2)
              IN  /\ bars_cache' = r.cache
                  /\ fetch_seq' = r.seq
                  /\ fn_args' = Some([fn |-> "get_daily_bars",
                                      start |-> start, end |-> end])
                  /\ fn_ret' = Some([bars |-> r.bars, raised |-> r.raised,
                                     from_cache |-> r.from_cache,
                                     fetched |-> r.fetched])
    /\ UNCHANGED <<cfg, ds_calendar, ds_stocks, ds_bars, ds_closes, ds_index>>
    /\ UNCHANGED <<explain_args, explained, explain_calls, stock_name_map,
                   name_lookups>>
    /\ UNCHANGED <<caller, rec_vars, bt_vars>>

NextBarsCache == GetDailyBars

SpecBarsCache == InitBarsCache /\ [][NextBarsCache]_vars

\* the dates of the rows rise strictly: ordered, no date twice
StrictlyAscending(rows) ==
    \A i \in 1..(Len(rows) - 1) : rows[i].trade_date < rows[i + 1].trade_date

\* the row the cache file holds for a date, None when it holds none
CachedRow(cache, d) ==
    IF cache = None THEN None
    ELSE LET at == {i \in 1..Len(cache[1]) : cache[1][i].trade_date = d}
         IN  IF at = {} THEN None ELSE Some(cache[1][CHOOSE i \in at : TRUE])

CacheFileWellFormed == bars_cache # None => StrictlyAscending(bars_cache[1])

ServedFromCacheWellFormed ==
    (fn_ret # None /\ fn_ret[1].from_cache) =>
        /\ StrictlyAscending(fn_ret[1].bars)
        /\ \A i \in 1..Len(fn_ret[1].bars) :
               /\ fn_args[1].start <= fn_ret[1].bars[i].trade_date
               /\ fn_ret[1].bars[i].trade_date <= fn_args[1].end

\* a call leaves in the file, for each date it fetched, the row fetched
\* last, and leaves the row of every other date as it was
LatestFetchWins ==
    fetch_seq' # fetch_seq =>
        LET fetched == fn_ret'[1].fetched
        IN  \A d \in CacheDays :
                LET at == {i \in 1..Len(fetched) : fetched[i].trade_date = d}
                IN  IF at = {}
                    THEN CachedRow(bars_cache', d) = CachedRow(bars_cache, d)
                    ELSE CachedRow(bars_cache', d)
                           = Some(fetched[CHOOSE i \in at :
                                              \A j \in at : i >= j])

\* C38: after any sequence of get_daily_bars calls the bar cache file of a
\* symbol holds at most one row per trade date, in ascending date order, and
\* for a date fetched more than once the most recently fetched row; bars
\* served from the cache lie within the requested [start, end], are ordered
\* by date and hold no date twice.
BarCacheOneRowPerDateLatestWins ==
    /\ [](CacheFileWellFormed /\ ServedFromCacheWellFormed)
    /\ [][LatestFetchWins]_vars

\* a call served from a cache that it extended on both sides, a date coming
\* back in both fetches and an earlier row being replaced
CacheRefilledOnBothSides ==
    /\ fn_ret # None /\ fn_ret[1].from_cache
    /\ Len(fn_ret[1].bars) >= 2
    /\ \E i, j \in 1..Len(fn_ret[1].fetched) :
           /\ fn_ret[1].fetched[i].trade_date = fn_ret[1].fetched[j].trade_date
           /\ fn_ret[1].fetched[i].fetched < fn_ret[1].fetched[j].fetched
           /\ CachedRow(bars_cache, fn_ret[1].fetched[i].trade_date)
                = Some(fn_ret[1].fetched[j])

\* ------------------------------------------------------------------------
\* AkshareDataSource._get_daily_bars_em, run on its own.  answers[i] is what
\* the remote history API gives when it is called for the i-th time: it
\* raises, or returns an empty frame, or a frame with rows.

MaxHistRetries == 3

ApiAnswers == {"raise", "empty", "rows"}

\* the retry loop and the tests after it: the calls made, whether the
\* function raised, and whether it returned bars (else the empty list)
_get_daily_bars_em(hist_retries, raise_on_error, answers) ==
    LET tried == 1..hist_retries
        done == {i \in tried : answers[i] # "raise"}
        first == IF done = {} THEN 0
                 ELSE CHOOSE i \in done : \A j \in done : i <= j
        made == IF first = 0 THEN Max(hist_retries, 0) ELSE first
        df_empty == first = 0 \/ answers[first] = "empty"
        last_err == \E i \in 1..made : answers[i] = "raise"
    IN  [calls |-> made,
         raised |-> df_empty /\ last_err /\ raise_on_error,
         bars |-> ~df_empty]

InitRetries ==
    /\ IdleHarness
    /\ cfg = DefaultCfg
    /\ fn_ret = None
    /\ \E n \in 0..MaxHistRetries, raise_on_error \in BOOLEAN :
       \E answers \in [1..n -> ApiAnswers] :
           fn_args = Some([fn |-> "_get_daily_bars_em", hist_retries |-> n,
                           raise_on_error |-> raise_on_error,
                           answers |-> answers])

CallGetDailyBarsEm ==
    /\ fn_args # None /\ fn_ret = None
    /\ fn_args[1].fn = "_get_daily_bars_em"
    /\ LET a == fn_args[1]
       IN  FnReturn(_get_daily_bars_em(a.hist_retries, a.raise_on_error,
                                       a.answers))

NextRetries == CallGetDailyBarsEm

SpecRetries == InitRetries /\ [][NextRetries]_vars

EmCalled ==
    /\ fn_args # None /\ fn_ret # None
    /\ fn_args[1].fn = "_get_daily_bars_em"

\* C39: _get_daily_bars_em calls the remote history API at most hist_retries
\* times and stops at the first attempt that does not raise; with
\* raise_on_error false it never raises, and with raise_on_error true it
\* raises only if every attempt raised.
EmRaisesOnlyWhenEveryAttemptRaised ==
    EmCalled =>
        LET a == fn_args[1]
            r == fn_ret[1]
        IN  /\ r.calls <= a.hist_retries
            /\ \A i \in 1..(r.calls - 1) : a.answers[i] = "raise"
            /\ r.calls < a.hist_retries => a.answers[r.calls] # "raise"
            /\ ~a.raise_on_error => ~r.raised
            /\ r.raised => \A i \in 1..r.calls : a.answers[i] = "raise"

====
